---- MODULE Spec2Model ----
(***************************************************************************)
(* Session orchestrator of the Zoom RTMS liveness plugin                   *)
(* (src/src/orchestrator.py) together with the in-memory result store      *)
(* (src/src/results.py).                                                   *)
(*                                                                         *)
(* All coroutines run on one asyncio event loop.  A coroutine runs until   *)
(* it reaches an await that really suspends; the variable `running` names  *)
(* the caller task that currently owns the loop (NoTask when the loop is   *)
(* free).  The awaits of the orchestrator suspend as follows:              *)
(*   - asyncio.Lock.acquire suspends only when the lock is held;           *)
(*   - the InMemoryResultStore operations hold their own lock over code    *)
(*     without awaits, so they never suspend;                              *)
(*   - RTMSClient.start / RTMSClient.close contain no await, so            *)
(*     _Session.start never suspends;                                      *)
(*   - _Session.close suspends in asyncio.gather when the Session owns     *)
(*     participant tasks.                                                  *)
(***************************************************************************)
EXTENDS Integers, FiniteSets, Sequences, TLC

\* ---- bounds of the model ------------------------------------------------
NumTasks == 2
NumMeetings == 3
MaxCreated == 2
MaxConcurrentSessions == 2
\* _MIN_CROPS (orchestrator.py) and REQUIRED_FRAMES (moveris/client.py) are
\* both 10 and _QUEUE_MAXSIZE is 100 in the program; the model scales them.
MIN_CROPS == 2
QUEUE_MAXSIZE == 2
\* frame callbacks delivered in one behaviour
MaxFrames == 3
\* _MAX_ATTEMPTS of the Moveris client
MAX_ATTEMPTS == 3
\* signaling: URLs in server_urls, frames the server sends after the
\* handshake, close() calls
MaxUrls == 2
MaxMsgs == 2
MaxCloses == 2
\* decoder: largest queue_size, frames FFmpeg decodes
MaxQueueSize == 2
MaxDecoded == 4

Tasks == 1..NumTasks
Meetings == 1..NumMeetings
\* The lifecycle of a Session depends on its participants only through whether
\* a pipeline task is pending when it is closed: one participant id shows it.
Participants == {1}
NoTask == 0
NoSession == 0
NoMeeting == 0

Verdicts == {"live", "fake", "error"}

VARIABLES
    sessions,   \* SessionOrchestrator._sessions: meeting id -> session id
    lock,       \* SessionOrchestrator._lock: holder task, or NoTask
    sess,       \* every _Session constructed so far, by session id
    store,      \* InMemoryResultStore._sessions: meeting id -> SessionStatus
    pc,         \* position of each caller task
    arg,        \* meeting_uuid argument of the call a task is in
    cur,        \* local `session` of the call a task is in
    drained,    \* local `sessions` list of close()
    last,       \* how the call that ended in the latest step ended
    running,    \* task that owns the event loop
    pipes,      \* _Session._participant_queues / _participant_tasks in detail
    frames,     \* number of frame callbacks the SDK bridge has delivered
    mv,         \* one MoverisClient.check_crops call
    sig,        \* one RTMSSignalingClient
    dec,        \* one H264Decoder
    wh          \* the webhook endpoint: events received, callbacks invoked

\* the variables of the participant pipelines, of the Moveris client, of the
\* signaling client and of the decoder
pvars == <<pipes, frames, mv, sig, dec, wh>>

vars == <<sessions, lock, sess, store, pc, arg, cur, drained, last, running,
          pipes, frames, mv, sig, dec, wh>>

\* ---- helpers --------------------------------------------------------------

\* f without key k
Pop(f, k) == [x \in DOMAIN f \ {k} |-> f[x]]

\* f with f[k] = v (k added when absent)
Put(f, k, v) == [x \in DOMAIN f \cup {k} |-> IF x = k THEN v ELSE f[x]]

EmptyMap == [x \in {} |-> 0]

active_session_count == Cardinality(DOMAIN sessions)

SetMin(S) == CHOOSE x \in S : \A y \in S : x <= y

\* list(self._sessions.items()): the (meeting id, Session) pairs of the map
Items == {<<m, sessions[m]>> : m \in DOMAIN sessions}

\* ---- result store (src/src/results.py) ------------------------------------

\* SessionStatus(meeting_uuid, state="pending"), participants = {}
SessionStatus == [state |-> "pending", participants |-> EmptyMap]

create_session(st, m) ==
    IF m \notin DOMAIN st THEN Put(st, m, SessionStatus) ELSE st

set_session_state(st, m, s) ==
    IF m \in DOMAIN st THEN [st EXCEPT ![m].state = s] ELSE st

set_result(st, m, p, r) ==
    IF m \in DOMAIN st
    THEN [st EXCEPT ![m].participants = Put(st[m].participants, p, r)]
    ELSE st

cleanup_session(st, m) == Pop(st, m)

\* ---- _Session -------------------------------------------------------------

\* _Session.__init__: empty participant dicts, an RTMSClient not yet started
NewSession(m) ==
    [meeting |-> m,
     rtms |-> "new",
     ptask |-> [p \in Participants |-> "none"],
     closed |-> FALSE]

HasTasks(s) == \E p \in Participants : s.ptask[p] # "none"
HasPendingTasks(s) == \E p \in Participants : s.ptask[p] = "running"

\* RTMSClient.close followed by task.cancel() for every participant task
CloseBegin(s) ==
    [s EXCEPT !.rtms = "closed",
              !.ptask = [p \in Participants |->
                            IF s.ptask[p] = "running" THEN "cancelled"
                            ELSE s.ptask[p]]]

\* tail of _Session.close: both participant dicts cleared.  A closed Session
\* that no pending call refers to is never read again, so its record is reduced
\* to the closed flag.
CloseEnd(s, referenced) ==
    [s EXCEPT !.ptask = [p \in Participants |-> "none"],
              !.closed = TRUE,
              !.meeting = IF referenced THEN @ ELSE NoMeeting]

\* whether `await asyncio.gather(...)` in _Session.close gives up the loop
GatherSuspends(s) ==
    IF HasPendingTasks(s) THEN {TRUE}
    ELSE IF HasTasks(s) THEN BOOLEAN
    ELSE {FALSE}

\* how a call ended: the exception raised or the return path taken
Ended(r, m) == [result |-> r, meeting |-> m]
NoCall == Ended("none", NoMeeting)

\* ---- participant pipelines: data ------------------------------------------

REQUIRED_FRAMES == MIN_CROPS

\* user_id 0 is the SDK's "no identity" value
UserIds == {0, 1, 2}
PSessions == {1, 2}
Routes == PSessions \X UserIds

\* MoverisResponse: verdict, score, real_score, fake_score, confidence
Responses ==
    {[verdict |-> "live", score |-> 88, real_score |-> 9, fake_score |-> 1,
      confidence |-> 95],
     [verdict |-> "fake", score |-> 12, real_score |-> 2, fake_score |-> 8,
      confidence |-> 70]}

\* status codes check_crops turns into MoverisError
NonRetryable == {401, 402, 422}

\* how `await client.check_crops(crops)` ends for the pipeline: a response, a
\* MoverisError, or the httpx error left after the last attempt
CallOutcomes ==
    [kind : {"response"}, resp : Responses, status : {0}]
    \cup [kind : {"MoverisError"}, resp : {0}, status : NonRetryable]
    \cup [kind : {"exhausted"}, resp : {0}, status : {0}]
NoOutcome == [kind |-> "none", resp |-> 0, status |-> 0]

\* LivenessResult built by _call_moveris from a response
\* frames_processed taken from the number of crops sent
LivenessResultCropCount(resp, frames_seen) ==
    [verdict |-> resp.verdict, score |-> resp.score,
     real_score |-> resp.real_score, fake_score |-> resp.fake_score,
     confidence |-> resp.confidence, frames_processed |-> MIN_CROPS,
     error |-> "none"]

LivenessResult(resp, frames_seen) ==
    [verdict |-> resp.verdict, score |-> resp.score,
     real_score |-> resp.real_score, fake_score |-> resp.fake_score,
     confidence |-> resp.confidence, frames_processed |-> frames_seen,
     error |-> "none"]

\* LivenessResult built by _store_error
ErrorResult(error, frames_seen) ==
    [verdict |-> "error", score |-> 0, real_score |-> 0, fake_score |-> 0,
     confidence |-> 0, frames_processed |-> frames_seen, error |-> error]

\* One entry of the Session's two participant dicts: the queue and the task.
\*   pc        position of the task: "none" (no task), "spawned" (created,
\*             first step not run), "pull" (in queue.get), "call" (in
\*             check_crops), "done", "cancelled", "failed" (ended by an
\*             exception of its own)
\*   listed    the entry is in the dicts of its Session
\*   cancelreq task.cancel() was called on the unfinished task
\*   queue     frame numbers in the asyncio.Queue
\*   put       frames enqueued so far (history)
\*   dropped   frames refused by the full queue so far (history)
\*   seen      frames_seen;  crops  len(crops)
\*   made / released   FaceDetector() / detector.close() calls
\*   calls / items     check_crops calls and the length of the list passed
\*   outcome   how the check_crops call ended
\*   spawns    tasks created for the participant in this Session (history,
\*             kept when the entry is cleared)
\* The history counters (put, dropped, seen) grow with every frame.  The
\* record follows them up to MaxCount, which no behaviour with at most
\* MaxFrames frame callbacks reaches; under an endless stream of frames they
\* stay at MaxCount (no branch of the code reads them).
MaxCount == MaxFrames + 1
Counted(n) == IF n < MaxCount THEN n + 1 ELSE n

NoPipe ==
    [pc |-> "none", listed |-> FALSE, cancelreq |-> FALSE, queue |-> <<>>,
     put |-> 0, dropped |-> 0, seen |-> 0, crops |-> 0, made |-> 0,
     released |-> 0, spawns |-> 0,
     calls |-> 0, items |-> 0, outcome |-> NoOutcome]

Live(p) == p.pc \in {"spawned", "pull", "call"}
Finished(p) == p.pc \in {"done", "cancelled", "failed"}

\* ---- Moveris client: data ------------------------------------------------

\* _RETRY_DELAYS, seconds
RETRY_DELAYS == <<1, 2>>

\* the locals of one check_crops call (attempt counts from 0 as in the code),
\* with the POSTs made, the sleeps entered and the replies received so far
MvIdle ==
    [pc |-> "idle", n |-> 0, attempt |-> 0, posts |-> 0, waits |-> <<>>,
     replies |-> <<>>,
     last_exc |-> [kind |-> "none", status |-> 0, retry_after |-> 0],
     result |-> "none", status |-> 0]

\* ---- RTMSSignalingClient: data (src/src/rtms/signaling.py) ---------------
\* One client, used by one caller: connect() and close() are called one
\* after the other, connect() at most once.  The peer (the signaling server)
\* and the keepalive task run between and during the calls.

\* lengths of the server_urls list given to the constructor
UrlCounts == 0..MaxUrls

\* values of the "timestamp" field of a keepalive request
Timestamps == {1, 2}

\* what `await websockets.connect(url)` under asyncio.timeout can end with
ConnectOutcomes == {"open", "refused", "timeout"}

\* What `await self._ws.recv()` of the handshake yields:
\*   "resp"     a JSON object with msg_type mt, status_code st (-1: the field
\*              is missing) and media_server.server_urls = media
\*   "timeout"  nothing within _HANDSHAKE_TIMEOUT
\*   "garbled"  a frame json.loads cannot read, or the connection closed
HsReply(k, mt, st, media) ==
    [kind |-> k, msg_type |-> mt, status_code |-> st, media |-> media]
MediaLists == {<<>>, <<1>>, <<2, 1>>}
HandshakeReplies ==
    {HsReply("resp", mt, st, media) :
        mt \in {2, 12}, st \in {0, 1, -1}, media \in MediaLists}
    \cup {HsReply("timeout", 0, 0, <<>>), HsReply("garbled", 0, 0, <<>>)}
NoHsReply == HsReply("none", 0, 0, <<>>)

\* What the keepalive loop reads from the connection:
\*   "object"    a JSON object with msg_type mt and timestamp ts
\*   "nonjson"   a text frame that is not JSON
\*   "nonobject" valid JSON that is not an object (a list, a number, null)
\*   "badutf8"   a binary frame that is not UTF-8
Msg(k, mt, ts) == [kind |-> k, msg_type |-> mt, timestamp |-> ts]
Messages ==
    {Msg("object", 12, ts) : ts \in Timestamps}
    \cup {Msg("object", 5, 1), Msg("nonjson", 0, 0), Msg("nonobject", 0, 0),
          Msg("badutf8", 0, 0)}

\* the client after __init__ with a list of n URLs (the URLs are named by
\* their position in the list)
NewSignaling(n) ==
    [urls |-> n,
     pc |-> "new",          \* connect(): new, connecting, handshake, returned, raised
     idx |-> 0,             \* position of `url` in the for loop
     failed |-> {},         \* URLs whose `except Exception` branch has run
     ws |-> 0,              \* self._ws: the URL its connection is to, 0 for None
     open |-> {},           \* connections opened and not closed by the client
     reply |-> NoHsReply,   \* the handshake reply read last
     media |-> 0,           \* value returned by connect()
     ka |-> "none",         \* self._keepalive_task: none, created, recv, send,
                            \*   cancelled, ended
     inbox |-> <<>>,        \* frames received and not yet read by the loop
     got |-> <<>>,          \* frames the loop has read
     replies |-> <<>>,      \* frames the loop has sent
     peer |-> FALSE,        \* the server has closed the connection
     cl |-> "idle",         \* close(): idle, await_ka, closing
     closes |-> 0]          \* close() calls that have returned

KeepaliveAlive(s) == s.ka \in {"created", "recv", "send"}

\* ---- H264Decoder: data (src/src/rtms/decoder.py) -------------------------
\* One decoder: start(), the reader task _read_frames, get_frame() of the
\* consumer and close().  Decoded frames are named by their number in the
\* stream.

\* values of the queue_size argument (0 would make the asyncio.Queue
\* unbounded and is left out)
QueueSizes == 1..MaxQueueSize

\* What one turn of the reader loop finds on FFmpeg's stdout:
\*   "frame"     a complete P6 image
\*   "badmagic"  a first line that is not P6
\*   "eof"       an empty first line: FFmpeg closed stdout
\*   "midframe"  stdout closed inside the pixel data (IncompleteReadError)
\*   "baddims"   a dimensions line that does not hold two integers
ReadKinds == {"frame", "badmagic", "eof", "midframe", "baddims"}

\* the decoder after __init__(queue_size)
Decoder(size) ==
    [maxsize |-> size,
     task |-> "none",     \* _reader_task: none, running, ended (returned),
                          \*   raised (ended by an exception), cancelled
     end |-> "none",      \* what the reader's last turn found, once it ended
     queue |-> <<>>,      \* self._queue
     read |-> 0,          \* frames the reader has decoded
     dropped |-> 0,       \* frames the reader has dropped
     taken |-> 0,         \* the frame get_frame returned last, 0 for None
     closed |-> FALSE]    \* close() has returned
NewDecoder == Decoder(1)

\* ---- webhook endpoint: data (src/src/webhook_handler.py, main.py) ---------

\* meeting ids carried by webhook events
WebhookMeetings == {1, 2}

\* the `event` field of a request body
Events == {"endpoint.url_validation", "meeting.rtms_started",
           "meeting.rtms_stopped", "meeting.ended"}

\* One request: whether its body is JSON, its event, whether its
\* X-Zoom-Signature is the HMAC of its timestamp and body, and the
\* meeting_uuid of payload.object
Request(json, event, signed, m) ==
    [json |-> json, event |-> event, signed |-> signed, meeting |-> m]
Requests ==
    {Request(json, event, signed, m) :
        json \in BOOLEAN, event \in Events, signed \in BOOLEAN,
        m \in WebhookMeetings}

\* what the endpoint has seen and done so far
\*   start_events / stop_events   meetings of the validly signed
\*                 meeting.rtms_started / meeting.rtms_stopped events received
\*   start_calls / stop_calls     meetings the start / stop callback was
\*                 invoked for
\*   response      status of the latest response, 0 before the first
NoWebhooks ==
    [start_events |-> {}, stop_events |-> {}, start_calls |-> {},
     stop_calls |-> {}, response |-> 0]

\* ---- scheduling -----------------------------------------------------------

\* some start_session call has registered Session i and not yet started it
Connecting(i) == \E u \in Tasks : pc[u] = "s_connect" /\ cur[u] = i

CanRun(t) == running = t \/ running = NoTask

Init ==
    /\ sessions = EmptyMap
    /\ lock = NoTask
    /\ sess = <<>>
    /\ store = EmptyMap
    /\ pc = [t \in Tasks |-> "idle"]
    /\ arg = [t \in Tasks |-> NoMeeting]
    /\ cur = [t \in Tasks |-> NoSession]
    /\ drained = [t \in Tasks |-> {}]
    /\ last = NoCall
    /\ running = NoTask
    /\ pipes = [r \in Routes |-> NoPipe]
    /\ frames = 0
    /\ mv = MvIdle
    /\ sig = NewSignaling(0)
    /\ dec = NewDecoder
    /\ wh = NoWebhooks

\* a call of task t ends (return or raise): its locals die, the loop is free
Finish(t, r, m) ==
    /\ last' = Ended(r, m)
    /\ pc' = [pc EXCEPT ![t] = "idle"]
    /\ arg' = [arg EXCEPT ![t] = NoMeeting]
    /\ cur' = [cur EXCEPT ![t] = NoSession]
    /\ running' = NoTask

\* Meeting ids are opaque strings and caller tasks are interchangeable: of the
\* ids no call has registered yet, a call names the lowest, and of the idle
\* tasks the lowest makes the next call.
FreshMeeting(m) == m \in Meetings /\ m \notin DOMAIN store

\* a caller task enters an orchestrator method and takes the free lock
Enter(t, m, label) ==
    /\ pc[t] = "idle"
    /\ \A u \in Tasks : pc[u] = "idle" => t <= u
    /\ FreshMeeting(m) => \A k \in Meetings : FreshMeeting(k) => m <= k
    /\ running = NoTask
    /\ lock = NoTask
    /\ lock' = t
    /\ pc' = [pc EXCEPT ![t] = label]
    /\ arg' = [arg EXCEPT ![t] = m]
    /\ last' = NoCall
    /\ running' = t
    /\ UNCHANGED <<sessions, sess, store, cur, drained>>

\* ---- start_session --------------------------------------------------------

\* capacity test that admits one Session too many
AtCapacityOffByOne(n) == n > MaxConcurrentSessions

AtCapacity(n) == n >= MaxConcurrentSessions

\* create_session followed by set_session_state(meeting_uuid, "processing")
\* registration that leaves the new status record in state `pending`
RegisterStatusPendingOnly(st, m) == create_session(st, m)

RegisterStatus(st, m) ==
    set_session_state(create_session(st, m), m, "processing")

\* bound of the model: no call that would construct a Session is made
\* once MaxCreated Sessions have been constructed
StartAcquire(t, m) ==
    /\ \/ Len(sess) < MaxCreated
       \/ active_session_count >= MaxConcurrentSessions
       \/ m \in DOMAIN sessions
    /\ Enter(t, m, "s_check")
    /\ UNCHANGED pvars

\* start_session that creates the status record before the capacity test
StartCheckCreateFirst(t) ==
    /\ pc[t] = "s_check"
    /\ running = t
    /\ lock = t
    /\ LET m == arg[t] IN
       IF AtCapacity(active_session_count)
       THEN /\ Finish(t, "TooManySessions", m)
            /\ store' = RegisterStatus(store, m)
            /\ UNCHANGED <<sessions, sess>>
       ELSE IF m \in DOMAIN sessions
       THEN /\ Finish(t, "duplicate", m)
            /\ UNCHANGED <<sessions, sess, store>>
       ELSE /\ store' = RegisterStatus(store, m)
            /\ sess' = Append(sess, NewSession(m))
            /\ sessions' = Put(sessions, m, Len(sess) + 1)
            /\ cur' = [cur EXCEPT ![t] = Len(sess) + 1]
            /\ pc' = [pc EXCEPT ![t] = "s_connect"]
            /\ running' = t
            /\ last' = NoCall
            /\ UNCHANGED arg
    /\ lock' = NoTask
    /\ UNCHANGED drained
    /\ UNCHANGED pvars

\* start_session that keeps the lock over `await session.start()`
StartCheckHoldLock(t) ==
    /\ pc[t] = "s_check"
    /\ running = t
    /\ lock = t
    /\ LET m == arg[t] IN
       IF AtCapacity(active_session_count)
       THEN /\ Finish(t, "TooManySessions", m)
            /\ lock' = NoTask
            /\ UNCHANGED <<sessions, sess, store>>
       ELSE IF m \in DOMAIN sessions
       THEN /\ Finish(t, "duplicate", m)
            /\ lock' = NoTask
            /\ UNCHANGED <<sessions, sess, store>>
       ELSE /\ store' = RegisterStatus(store, m)
            /\ sess' = Append(sess, NewSession(m))
            /\ sessions' = Put(sessions, m, Len(sess) + 1)
            /\ cur' = [cur EXCEPT ![t] = Len(sess) + 1]
            /\ pc' = [pc EXCEPT ![t] = "s_connect"]
            /\ running' = t
            /\ lock' = t
            /\ last' = NoCall
            /\ UNCHANGED arg
    /\ UNCHANGED drained
    /\ UNCHANGED pvars

\* start_session whose connection start would give up the loop after the
\* Session is registered
StartCheckYields(t) ==
    /\ pc[t] = "s_check"
    /\ running = t
    /\ lock = t
    /\ LET m == arg[t] IN
       IF AtCapacity(active_session_count)
       THEN /\ Finish(t, "TooManySessions", m)
            /\ UNCHANGED <<sessions, sess, store>>
       ELSE IF m \in DOMAIN sessions
       THEN /\ Finish(t, "duplicate", m)
            /\ UNCHANGED <<sessions, sess, store>>
       ELSE /\ store' = RegisterStatus(store, m)
            /\ sess' = Append(sess, NewSession(m))
            /\ sessions' = Put(sessions, m, Len(sess) + 1)
            /\ cur' = [cur EXCEPT ![t] = Len(sess) + 1]
            /\ pc' = [pc EXCEPT ![t] = "s_connect"]
            /\ running' = NoTask
            /\ last' = NoCall
            /\ UNCHANGED arg
    /\ lock' = NoTask
    /\ UNCHANGED drained
    /\ UNCHANGED pvars

\* body of `async with self._lock` in start_session
StartCheck(t) ==
    /\ pc[t] = "s_check"
    /\ running = t
    /\ lock = t
    /\ LET m == arg[t] IN
       IF AtCapacity(active_session_count)
       THEN /\ Finish(t, "TooManySessions", m)
            /\ UNCHANGED <<sessions, sess, store>>
       ELSE IF m \in DOMAIN sessions
       THEN /\ Finish(t, "duplicate", m)
            /\ UNCHANGED <<sessions, sess, store>>
       ELSE /\ store' = RegisterStatus(store, m)
            /\ sess' = Append(sess, NewSession(m))
            /\ sessions' = Put(sessions, m, Len(sess) + 1)
            /\ cur' = [cur EXCEPT ![t] = Len(sess) + 1]
            /\ pc' = [pc EXCEPT ![t] = "s_connect"]
            /\ running' = t
            /\ last' = NoCall
            /\ UNCHANGED arg
    /\ lock' = NoTask
    /\ UNCHANGED drained
    /\ UNCHANGED pvars

\* `await session.start()`: RTMSClient.start joins the stream and starts the
\* polling thread, or the SDK raises and the exception leaves start_session
StartConnect(t) ==
    /\ pc[t] = "s_connect"
    /\ CanRun(t)
    /\ \E joined \in BOOLEAN :
          /\ sess' = [sess EXCEPT ![cur[t]].rtms =
                         IF joined THEN "running" ELSE "new"]
          /\ Finish(t, IF joined THEN "started" ELSE "ConnectError", arg[t])
    /\ UNCHANGED <<sessions, lock, store, drained>>
    /\ UNCHANGED pvars

\* ---- stop_session ---------------------------------------------------------

StopAcquire(t, m) ==
    /\ m \in Meetings
    /\ Enter(t, m, "p_pop")
    /\ UNCHANGED pvars

\* stop_session that marks the status complete before the None test
StopPopMarkAlways(t) ==
    /\ pc[t] = "p_pop"
    /\ running = t
    /\ lock = t
    /\ lock' = NoTask
    /\ store' = set_session_state(store, arg[t], "complete")
    /\ LET m == arg[t] IN
       IF m \in DOMAIN sessions
       THEN /\ cur' = [cur EXCEPT ![t] = sessions[m]]
            /\ sessions' = Pop(sessions, m)
            /\ pc' = [pc EXCEPT ![t] = "p_close"]
            /\ running' = t
            /\ last' = NoCall
            /\ UNCHANGED arg
       ELSE /\ Finish(t, "unknown", m)
            /\ UNCHANGED sessions
    /\ UNCHANGED <<sess, drained>>
    /\ UNCHANGED pvars

\* `session = self._sessions.pop(meeting_uuid, None)` and the None test
StopPop(t) ==
    /\ pc[t] = "p_pop"
    /\ running = t
    /\ lock = t
    /\ lock' = NoTask
    /\ LET m == arg[t] IN
       IF m \in DOMAIN sessions
       THEN /\ cur' = [cur EXCEPT ![t] = sessions[m]]
            /\ sessions' = Pop(sessions, m)
            /\ pc' = [pc EXCEPT ![t] = "p_close"]
            /\ running' = t
            /\ last' = NoCall
            /\ UNCHANGED arg
       ELSE /\ Finish(t, "unknown", m)
            /\ UNCHANGED sessions
    /\ UNCHANGED <<sess, store, drained>>
    /\ UNCHANGED pvars

\* `await session.close()` up to the gather
StopClose(t) ==
    /\ pc[t] = "p_close"
    /\ running = t
    /\ \E susp \in GatherSuspends(sess[cur[t]]) :
          running' = IF susp THEN NoTask ELSE t
    /\ sess' = [sess EXCEPT ![cur[t]] = CloseBegin(@)]
    /\ pc' = [pc EXCEPT ![t] = "p_mark"]
    /\ last' = NoCall
    /\ UNCHANGED <<sessions, lock, store, arg, cur, drained>>
    /\ UNCHANGED pvars

\* stop_session that returns without marking the status complete
StopMarkNoComplete(t) ==
    /\ pc[t] = "p_mark"
    /\ CanRun(t)
    /\ sess' = [sess EXCEPT ![cur[t]] = CloseEnd(@, Connecting(cur[t]))]
    /\ Finish(t, "stopped", arg[t])
    /\ UNCHANGED <<sessions, lock, store, drained>>
    /\ UNCHANGED pvars

\* rest of session.close(), then set_session_state(meeting_uuid, "complete")
StopMark(t) ==
    /\ pc[t] = "p_mark"
    /\ CanRun(t)
    /\ sess' = [sess EXCEPT ![cur[t]] = CloseEnd(@, Connecting(cur[t]))]
    /\ store' = set_session_state(store, arg[t], "complete")
    /\ Finish(t, "stopped", arg[t])
    /\ UNCHANGED <<sessions, lock, drained>>
    /\ UNCHANGED pvars

\* ---- close ----------------------------------------------------------------

CloseAcquire(t) ==
    /\ t \in Tasks
    /\ Enter(t, NoMeeting, "c_drain")
    /\ UNCHANGED pvars

\* close() that copies the map but does not clear it
CloseDrainNoClear(t) ==
    /\ pc[t] = "c_drain"
    /\ running = t
    /\ lock = t
    /\ drained' = [drained EXCEPT ![t] = Items]
    /\ lock' = NoTask
    /\ cur' = [cur EXCEPT ![t] = NoSession]
    /\ pc' = [pc EXCEPT ![t] = "c_loop"]
    /\ running' = t
    /\ last' = NoCall
    /\ UNCHANGED <<sessions, sess, store, arg>>
    /\ UNCHANGED pvars

\* `sessions = list(self._sessions.items()); self._sessions.clear()`
CloseDrain(t) ==
    /\ pc[t] = "c_drain"
    /\ running = t
    /\ lock = t
    /\ drained' = [drained EXCEPT ![t] = Items]
    /\ sessions' = EmptyMap
    /\ lock' = NoTask
    /\ cur' = [cur EXCEPT ![t] = NoSession]
    /\ pc' = [pc EXCEPT ![t] = "c_loop"]
    /\ running' = t
    /\ last' = NoCall
    /\ UNCHANGED <<sess, store, arg>>
    /\ UNCHANGED pvars

\* Sessions of the drained list that the for loop has not reached yet: the
\* list is in insertion order, session ids grow with insertion, and cur[t]
\* is the Session of the last iteration
Remaining(t) == {it \in drained[t] : it[2] > cur[t]}

\* head of the for loop: return when the list is exhausted, else
\* `await session.close()` of the next Session up to the gather
CloseLoop(t) ==
    /\ pc[t] = "c_loop"
    /\ running = t
    /\ IF Remaining(t) = {}
       THEN /\ Finish(t, "closed", NoMeeting)
            /\ drained' = [drained EXCEPT ![t] = {}]
            /\ UNCHANGED sess
       ELSE LET s == SetMin({it[2] : it \in Remaining(t)}) IN
            /\ cur' = [cur EXCEPT ![t] = s]
            /\ \E susp \in GatherSuspends(sess[s]) :
                  running' = IF susp THEN NoTask ELSE t
            /\ sess' = [sess EXCEPT ![s] = CloseBegin(@)]
            /\ pc' = [pc EXCEPT ![t] = "c_mark"]
            /\ last' = NoCall
            /\ UNCHANGED <<arg, drained>>
    /\ UNCHANGED <<sessions, lock, store>>
    /\ UNCHANGED pvars

\* the meeting_uuid paired with Session s in the drained list
MeetingOf(t, s) == (CHOOSE it \in drained[t] : it[2] = s)[1]

\* rest of session.close(), then set_session_state(meeting_uuid, "complete")
CloseMark(t) ==
    /\ pc[t] = "c_mark"
    /\ CanRun(t)
    /\ sess' = [sess EXCEPT ![cur[t]] = CloseEnd(@, Connecting(cur[t]))]
    /\ store' = set_session_state(store, MeetingOf(t, cur[t]), "complete")
    /\ pc' = [pc EXCEPT ![t] = "c_loop"]
    /\ running' = t
    /\ last' = NoCall
    /\ UNCHANGED <<sessions, lock, arg, cur, drained>>
    /\ UNCHANGED pvars

\* ---- participant pipelines of a Session ----------------------------------

\* _Session._on_frame for a frame with a real identity: the first frame of a
\* participant spawns its pipeline task.  Participant ids are opaque: of the
\* ids a meeting has not seen yet, the first frame carries the lowest.
FreshParticipant(m, p) ==
    /\ p \notin DOMAIN store[m].participants
    /\ \A i \in 1..Len(sess) : sess[i].meeting = m => sess[i].ptask[p] = "none"

OnFrame(s, p) ==
    /\ running = NoTask
    /\ s \in 1..Len(sess)
    /\ sess[s].rtms = "running"
    /\ sess[s].ptask[p] = "none"
    /\ FreshParticipant(sess[s].meeting, p) =>
           \A q \in Participants : FreshParticipant(sess[s].meeting, q) => p <= q
    /\ sess' = [sess EXCEPT ![s].ptask[p] = "running"]
    /\ last' = NoCall
    /\ UNCHANGED <<sessions, lock, store, pc, arg, cur, drained, running>>
    /\ UNCHANGED pvars

\* _process_participant runs to its end and stores its result
PipelineFinish(s, p, v) ==
    /\ running = NoTask
    /\ s \in 1..Len(sess)
    /\ sess[s].ptask[p] = "running"
    /\ store' = set_result(store, sess[s].meeting, p, v)
    /\ sess' = [sess EXCEPT ![s].ptask[p] = "done"]
    /\ last' = NoCall
    /\ UNCHANGED <<sessions, lock, pc, arg, cur, drained, running>>
    /\ UNCHANGED pvars

\* ---- specification --------------------------------------------------------

Next ==
    \/ \E t \in Tasks, m \in Meetings : StartAcquire(t, m)
    \/ \E t \in Tasks : StartCheck(t)
    \/ \E t \in Tasks : StartConnect(t)
    \/ \E t \in Tasks, m \in Meetings : StopAcquire(t, m)
    \/ \E t \in Tasks : StopPop(t)
    \/ \E t \in Tasks : StopClose(t)
    \/ \E t \in Tasks : StopMark(t)
    \/ \E t \in Tasks : CloseAcquire(t)
    \/ \E t \in Tasks : CloseDrain(t)
    \/ \E t \in Tasks : CloseLoop(t)
    \/ \E t \in Tasks : CloseMark(t)
    \/ \E s \in 1..MaxCreated, p \in Participants : OnFrame(s, p)
    \/ \E s \in 1..MaxCreated, p \in Participants, v \in Verdicts :
          PipelineFinish(s, p, v)

Spec == Init /\ [][Next]_vars

\* `await session.start()` taken as a suspension point: the caller gives up
\* the loop before the connection start completes.  RTMSClient.start has no
\* await of its own, so Spec never takes this step; SpecAwait adds it to
\* cover a transport whose start does suspend.
ConnectYield(t) ==
    /\ pc[t] = "s_connect"
    /\ running = t
    /\ running' = NoTask
    /\ last' = NoCall
    /\ UNCHANGED <<sessions, lock, sess, store, pc, arg, cur, drained>>
    /\ UNCHANGED pvars

NextAwait ==
    \/ Next
    \/ \E t \in Tasks : ConnectYield(t)

SpecAwait == Init /\ [][NextAwait]_vars

\* ==== MoverisClient.check_crops (src/src/moveris/client.py) ================

\* lengths of the list passed to check_crops
CropCounts == 0..(REQUIRED_FRAMES + 1)

\* How one `await self._post(...)` ends:
\*   "ok"        2xx with a well-formed body
\*   "malformed" 2xx whose body _parse_response cannot read (KeyError)
\*   "status"    raise_for_status raises httpx.HTTPStatusError
\*   "timeout" / "connect"   httpx.TimeoutException / httpx.ConnectError
\*   "other"     any other exception of the transport
\* retry_after is the field of a 429 body, 0 when the body has none
Reply(k, st, ra) == [kind |-> k, status |-> st, retry_after |-> ra]
Replies ==
    {Reply("ok", 200, 0), Reply("malformed", 200, 0),
     Reply("timeout", 0, 0), Reply("connect", 0, 0), Reply("other", 0, 0)}
    \cup {Reply("status", st, 0) : st \in {401, 402, 422, 429, 404, 500}}
    \cup {Reply("status", 429, 7)}
NoReply == Reply("none", 0, 0)

\* `status in (401, 402, 422)` without 422
IsNonRetryableNo422(st) == st \in {401, 402}

IsNonRetryable(st) == st \in {401, 402, 422}

\* a length test that lets longer lists through
LengthRefusedBelowOnly(n) == n < REQUIRED_FRAMES

\* `if len(images_b64) != REQUIRED_FRAMES: raise ValueError`
LengthRefused(n) == n # REQUIRED_FRAMES

\* last_exc kept from the first failure
RememberFirst(m, reply) ==
    [m EXCEPT !.last_exc = IF m.last_exc = NoReply THEN reply ELSE @]

\* `last_exc = exc`
Remember(m, reply) == [m EXCEPT !.last_exc = reply]

\* the call ends by raising
Raise(m, what, st) == [m EXCEPT !.pc = "raised", !.result = what, !.status = st]

\* `raise last_exc` after the loop
RaiseLast(m) == Raise(m, "last_exc", m.last_exc.status)

\* the for loop goes on with the next attempt, or ends
NextAttempt(m) ==
    IF m.attempt + 1 < MAX_ATTEMPTS
    THEN [m EXCEPT !.pc = "post", !.attempt = @ + 1, !.posts = @ + 1]
    ELSE RaiseLast(m)

\* asyncio.sleep(d) is entered
Sleep(m, d, why) == [m EXCEPT !.pc = why, !.waits = Append(@, d)]

\* ==== participant pipelines of running Sessions ============================
\* (src/src/orchestrator.py, _Session.  The abstract ptask field of a Session
\* record is not used here: the pipelines are in `pipes`.)

\* two Sessions registered and started by start_session, no frame seen yet
InitPipeline ==
    /\ sessions = [m \in PSessions |-> m]
    /\ lock = NoTask
    /\ sess = [i \in PSessions |-> [NewSession(i) EXCEPT !.rtms = "running"]]
    /\ store = [m \in PSessions |-> [SessionStatus EXCEPT !.state = "processing"]]
    /\ pc = [t \in Tasks |-> "idle"]
    /\ arg = [t \in Tasks |-> NoMeeting]
    /\ cur = [t \in Tasks |-> NoSession]
    /\ drained = [t \in Tasks |-> {}]
    /\ last = NoCall
    /\ running = NoTask
    /\ pipes = [r \in Routes |-> NoPipe]
    /\ frames = 0
    /\ mv = MvIdle
    /\ sig = NewSignaling(0)
    /\ dec = NewDecoder
    /\ wh = NoWebhooks

\* what a pipeline step leaves alone
PipeFrame ==
    UNCHANGED <<lock, pc, arg, cur, drained, last, running, mv, sig, dec, wh>>

\* the task has ended: `finally: detector.close()`
EndTask(p, how) ==
    [p EXCEPT !.pc = how,
              !.released = IF p.made > p.released THEN @ + 1 ELSE @]

\* an error path that also cancels the other tasks of the Session
StoreErrorAndEndAbortsSession(r, p, error) ==
    /\ store' = set_result(store, sess[r[1]].meeting, r[2],
                           ErrorResult(error, p.seen))
    /\ pipes' = [q \in Routes |->
           IF q = r THEN EndTask(p, "done")
           ELSE IF q[1] = r[1] /\ Live(pipes[q])
           THEN [pipes[q] EXCEPT !.cancelreq = TRUE]
           ELSE pipes[q]]

\* _store_error followed by the end of the task
StoreErrorAndEnd(r, p, error) ==
    /\ store' = set_result(store, sess[r[1]].meeting, r[2],
                           ErrorResult(error, p.seen))
    /\ pipes' = [pipes EXCEPT ![r] = EndTask(p, "done")]

\* first frame of a participant: queue and task created, frame enqueued.
\* A queued frame is named by its number among the frames put for the task.
Spawn(r) ==
    /\ ~Live(pipes[r])
    /\ pipes' = [pipes EXCEPT ![r] =
           [NoPipe EXCEPT !.pc = "spawned", !.listed = TRUE,
                          !.spawns = pipes[r].spawns + 1,
                          !.queue = <<1>>, !.put = 1]]

\* a put that finds room in a full queue
PutNowaitUnbounded(r) ==
    pipes' = [pipes EXCEPT ![r].queue = Append(@, pipes[r].put + 1),
                           ![r].put = @ + 1]

\* queue.put_nowait(frame), the frame dropped when the queue is full
\* (`except asyncio.QueueFull`)
PutNowait(r) ==
    IF Len(pipes[r].queue) < QUEUE_MAXSIZE
    THEN pipes' = [pipes EXCEPT ![r].queue = Append(@, Counted(pipes[r].put)),
                                ![r].put = Counted(@)]
    ELSE pipes' = [pipes EXCEPT ![r].dropped = Counted(@)]

\* Participant ids are opaque: of the real ids a Session has not seen, a
\* frame carries the lowest.
FreshUser(s, u) == u # 0 /\ pipes[<<s, u>>] = NoPipe

\* _on_frame that routes a frame of user_id 0 like any other
RouteFrameNoSentinel(s, u) ==
    /\ frames < MaxFrames
    /\ sess[s].rtms \in {"running", "closed"}
    /\ frames' = frames + 1
    /\ IF ~pipes[<<s, u>>].listed THEN Spawn(<<s, u>>) ELSE PutNowait(<<s, u>>)
    /\ UNCHANGED <<sessions, sess, store>>
    /\ PipeFrame

\* _Session._on_frame(frame, user_id, ...), run for a callback the SDK bridge
\* scheduled while the client was running; the callback may run after close.
\* (A frame for a participant whose unlisted task is still alive is left out.)
RouteFrame(s, u) ==
    /\ frames < MaxFrames
    /\ FreshUser(s, u) => \A v \in UserIds \ {0} : FreshUser(s, v) => u <= v
    /\ sess[s].rtms \in {"running", "closed"}
    /\ frames' = frames + 1
    /\ IF u = 0 THEN UNCHANGED pipes
       ELSE IF ~pipes[<<s, u>>].listed THEN Spawn(<<s, u>>)
       ELSE PutNowait(<<s, u>>)
    /\ UNCHANGED <<sessions, sess, store>>
    /\ PipeFrame

\* first step of _process_participant: FaceDetector(), MoverisClient entered,
\* first queue.get awaited.  FaceDetector() may raise (outside the try).
PStart(r, built) ==
    /\ pipes[r].pc = "spawned"
    /\ ~pipes[r].cancelreq
    /\ pipes' = [pipes EXCEPT ![r] =
           IF built THEN [@ EXCEPT !.pc = "pull", !.made = @ + 1]
           ELSE [@ EXCEPT !.pc = "failed"]]
    /\ UNCHANGED <<sessions, sess, store, frames>>
    /\ PipeFrame

\* what the filter and the detector make of a pulled frame
FrameKinds == {"crop", "blurry", "noface", "raise"}

\* the frame pulled was accepted: crop appended, and with MIN_CROPS crops the
\* loop ends and _call_moveris passes crops[:MIN_CROPS] to check_crops (a
\* list check_crops refuses raises ValueError into `except Exception`)
Accept(r, p) ==
    LET q == [p EXCEPT !.crops = @ + 1] IN
    IF q.crops < MIN_CROPS
    THEN /\ pipes' = [pipes EXCEPT ![r] = q]
         /\ UNCHANGED store
    ELSE LET c == [q EXCEPT !.calls = @ + 1, !.items = MIN_CROPS] IN
         IF LengthRefused(c.items)
         THEN StoreErrorAndEnd(r, c, "ValueError")
         ELSE /\ pipes' = [pipes EXCEPT ![r] = [c EXCEPT !.pc = "call"]]
              /\ UNCHANGED store

\* one turn of the loop: a frame is pulled from the queue and counted, then
\* filtered (is_quality_frame) and cropped (detector.detect)
PPull(r, kind) ==
    /\ pipes[r].pc = "pull"
    /\ ~pipes[r].cancelreq
    /\ pipes[r].queue # <<>>
    /\ LET p == [pipes[r] EXCEPT !.queue = Tail(@), !.seen = Counted(@)] IN
       CASE kind = "crop" -> Accept(r, p)
         [] kind = "raise" -> StoreErrorAndEnd(r, p, "Exception")
         [] OTHER -> /\ pipes' = [pipes EXCEPT ![r] = p]
                     /\ UNCHANGED store
    /\ UNCHANGED <<sessions, sess, frames>>
    /\ PipeFrame

\* a timeout that stores nothing
PTimeoutSilent(r) ==
    /\ pipes[r].pc = "pull"
    /\ ~pipes[r].cancelreq
    /\ pipes[r].queue = <<>>
    /\ pipes' = [pipes EXCEPT ![r] = EndTask(@, "done")]
    /\ UNCHANGED <<sessions, sess, store, frames>>
    /\ PipeFrame

\* asyncio.wait_for(queue.get(), _FRAME_TIMEOUT_S) times out on the empty
\* queue: the loop breaks with too few crops, "insufficient_frames" is stored
PTimeout(r) ==
    /\ pipes[r].pc = "pull"
    /\ ~pipes[r].cancelreq
    /\ pipes[r].queue = <<>>
    /\ StoreErrorAndEnd(r, pipes[r], "insufficient_frames")
    /\ UNCHANGED <<sessions, sess, frames>>
    /\ PipeFrame

\* a check_crops failure left after the last attempt escapes the task
PCallReturnRaises(r, o) ==
    /\ pipes[r].pc = "call"
    /\ ~pipes[r].cancelreq
    /\ LET p == [pipes[r] EXCEPT !.outcome = o] IN
       CASE o.kind = "response" ->
              /\ store' = set_result(store, sess[r[1]].meeting, r[2],
                                     LivenessResult(o.resp, p.seen))
              /\ pipes' = [pipes EXCEPT ![r] = EndTask(p, "done")]
         [] o.kind = "MoverisError" -> StoreErrorAndEnd(r, p, o.kind)
         [] OTHER -> /\ pipes' = [pipes EXCEPT ![r] = EndTask(p, "failed")]
                     /\ UNCHANGED store
    /\ UNCHANGED <<sessions, sess, frames>>
    /\ PipeFrame

\* `await client.check_crops(...)` ends: a response becomes the stored
\* LivenessResult; MoverisError is caught by _call_moveris, any other error
\* by `except Exception` of _process_participant; both store an error
PCallReturn(r, o) ==
    /\ pipes[r].pc = "call"
    /\ ~pipes[r].cancelreq
    /\ LET p == [pipes[r] EXCEPT !.outcome = o] IN
       IF o.kind = "response"
       THEN /\ store' = set_result(store, sess[r[1]].meeting, r[2],
                                   LivenessResult(o.resp, p.seen))
            /\ pipes' = [pipes EXCEPT ![r] = EndTask(p, "done")]
       ELSE StoreErrorAndEnd(r, p, o.kind)
    /\ UNCHANGED <<sessions, sess, frames>>
    /\ PipeFrame

\* a cancelled task that ends without releasing its detector
PCancelledNoRelease(r) ==
    /\ Live(pipes[r])
    /\ pipes[r].cancelreq
    /\ pipes' = [pipes EXCEPT ![r].pc = "cancelled"]
    /\ UNCHANGED <<sessions, sess, store, frames>>
    /\ PipeFrame

\* the step of a task after task.cancel(): CancelledError is raised at its
\* await (`except asyncio.CancelledError: raise`, then finally), or, for a
\* task that never ran, instead of its first step
PCancelled(r) ==
    /\ Live(pipes[r])
    /\ pipes[r].cancelreq
    /\ pipes' = [pipes EXCEPT ![r] = EndTask(@, "cancelled")]
    /\ UNCHANGED <<sessions, sess, store, frames>>
    /\ PipeFrame

Listed(s) == {r \in Routes : r[1] = s /\ pipes[r].listed}

\* stop_session(m) for the registered Session s up to its first suspension:
\* pop under the free lock, RTMSClient.close, task.cancel() for every task;
\* with tasks it waits in asyncio.gather, without it finishes at once
PStop(s) ==
    /\ \E m \in DOMAIN sessions : sessions[m] = s
    /\ sessions' = Pop(sessions, sess[s].meeting)
    /\ pipes' = [r \in Routes |->
           IF r \in Listed(s) /\ Live(pipes[r])
           THEN [pipes[r] EXCEPT !.cancelreq = TRUE] ELSE pipes[r]]
    /\ IF Listed(s) # {}
       THEN /\ sess' = [sess EXCEPT ![s].rtms = "closed"]
            /\ UNCHANGED store
       ELSE /\ sess' = [sess EXCEPT ![s].rtms = "closed", ![s].closed = TRUE]
            /\ store' = set_session_state(store, sess[s].meeting, "complete")
    /\ UNCHANGED frames
    /\ PipeFrame

\* gather returns when every task it was given has ended; both dicts are
\* cleared and the status is set to "complete".  A task spawned meanwhile
\* loses its dict entry and runs on.
PStopEnd(s) ==
    /\ sess[s].rtms = "closed"
    /\ ~sess[s].closed
    /\ \A r \in Listed(s) : pipes[r].cancelreq => Finished(pipes[r])
    /\ pipes' = [r \in Routes |->
           IF r \notin Listed(s) THEN pipes[r]
           ELSE IF Finished(pipes[r])
           THEN [NoPipe EXCEPT !.spawns = pipes[r].spawns]
           ELSE [pipes[r] EXCEPT !.listed = FALSE]]
    /\ sess' = [sess EXCEPT ![s].closed = TRUE]
    /\ store' = set_session_state(store, sess[s].meeting, "complete")
    /\ UNCHANGED <<sessions, frames>>
    /\ PipeFrame

NextPipeline ==
    \/ \E s \in PSessions, u \in UserIds : RouteFrame(s, u)
    \/ \E r \in Routes, built \in BOOLEAN : PStart(r, built)
    \/ \E r \in Routes, kind \in FrameKinds : PPull(r, kind)
    \/ \E r \in Routes : PTimeout(r)
    \/ \E r \in Routes, o \in CallOutcomes : PCallReturn(r, o)
    \/ \E r \in Routes : PCancelled(r)
    \/ \E s \in PSessions : PStop(s)
    \/ \E s \in PSessions : PStopEnd(s)

SpecPipeline == InitPipeline /\ [][NextPipeline]_vars

\* ---- one Session under an endless stream of frames ----------------------

\* the Session and the participant the stream belongs to
StreamSession == 1
StreamRoutes == {<<StreamSession, 1>>}

\* _Session._on_frame for one more frame of the stream; the SDK delivers
\* frames for as long as the client is running, with no bound on their number
StreamFrame(r) ==
    /\ r \in StreamRoutes
    /\ FreshUser(r[1], r[2])
          => \A v \in UserIds \ {0} : FreshUser(r[1], v) => r[2] <= v
    /\ sess[r[1]].rtms = "running"
    /\ IF ~pipes[r].listed THEN Spawn(r) ELSE PutNowait(r)
    /\ UNCHANGED <<sessions, sess, store, frames>>
    /\ PipeFrame

NextStream ==
    \/ \E r \in StreamRoutes : StreamFrame(r)
    \/ \E r \in StreamRoutes, built \in BOOLEAN : PStart(r, built)
    \/ \E r \in StreamRoutes, kind \in FrameKinds : PPull(r, kind)
    \/ \E r \in StreamRoutes : PTimeout(r)
    \/ \E r \in StreamRoutes, o \in CallOutcomes : PCallReturn(r, o)
    \/ \E r \in StreamRoutes : PCancelled(r)
    \/ PStop(StreamSession)
    \/ PStopEnd(StreamSession)

\* The event loop runs every task that is ready: a task whose queue holds a
\* frame pulls it, a wait_for on a queue that stays empty times out,
\* check_crops ends (its attempts are bounded), a cancelled task takes its
\* CancelledError, a gather whose tasks have ended returns.  Nothing is
\* assumed about the arrival of frames or about stop_session.
FairStream ==
    /\ \A r \in StreamRoutes :
          /\ WF_vars(\E built \in BOOLEAN : PStart(r, built))
          /\ WF_vars(\E kind \in FrameKinds : PPull(r, kind))
          /\ WF_vars(PTimeout(r))
          /\ WF_vars(\E o \in CallOutcomes : PCallReturn(r, o))
          /\ WF_vars(PCancelled(r))
    /\ WF_vars(PStopEnd(StreamSession))

SpecStream == InitPipeline /\ [][NextStream]_vars /\ FairStream

\* ==== MoverisClient.check_crops: the call ================================

MvFrame ==
    UNCHANGED <<sessions, lock, sess, store, pc, arg, cur, drained, last,
                running, pipes, frames, sig, dec, wh>>

\* check_crops(images_b64) is called with n items
MvCall(n) ==
    /\ mv.pc = "idle"
    /\ mv' = IF LengthRefused(n)
             THEN Raise([mv EXCEPT !.n = n], "ValueError", 0)
             ELSE [mv EXCEPT !.n = n, !.pc = "post", !.posts = 1]
    /\ MvFrame

\* the first delay of the schedule after every failed attempt
BackoffFlat(attempt) == RETRY_DELAYS[1]

\* `_RETRY_DELAYS[attempt]` of the wait that ends the loop body (attempt is
\* 0-based in the code, the tuple is 1-based here)
Backoff(attempt) == RETRY_DELAYS[attempt + 1]

\* the 429 branch with the body's retry_after ignored
Wait429DefaultOnly(m, reply) ==
    RETRY_DELAYS[IF m.attempt < Len(RETRY_DELAYS) - 1
                 THEN m.attempt + 1 ELSE Len(RETRY_DELAYS)]

\* the 429 branch: wait taken from the body or from _RETRY_DELAYS
Wait429(m, reply) ==
    IF reply.retry_after # 0 THEN reply.retry_after
    ELSE RETRY_DELAYS[IF m.attempt < Len(RETRY_DELAYS) - 1
                      THEN m.attempt + 1 ELSE Len(RETRY_DELAYS)]

\* the pending POST of the current attempt ends with `reply`
MvReply(reply) ==
    /\ mv.pc = "post"
    /\ LET m == [mv EXCEPT !.replies = Append(@, reply)] IN
       mv' =
         CASE reply.kind = "ok" -> [m EXCEPT !.pc = "returned", !.result = "response"]
           [] reply.kind = "malformed" -> Raise(m, "KeyError", 0)
           [] reply.kind = "other" -> Raise(m, "other", 0)
           [] reply.kind = "status" /\ IsNonRetryable(reply.status) ->
                  Raise(m, "MoverisError", reply.status)
           [] reply.kind = "status" /\ ~IsNonRetryable(reply.status)
                 /\ reply.status = 429 ->
                  Sleep(m, Wait429(m, reply), "sleep429")
           [] OTHER ->
                  LET k == Remember(m, reply) IN
                  IF k.attempt < MAX_ATTEMPTS - 1
                  THEN Sleep(k, Backoff(k.attempt), "sleep")
                  ELSE RaiseLast(k)
    /\ MvFrame

\* asyncio.sleep returns: after a 429 `last_exc = exc; continue`, otherwise
\* the end of the loop body
MvWake ==
    /\ mv.pc \in {"sleep", "sleep429"}
    /\ mv' = IF mv.pc = "sleep429"
             THEN NextAttempt(Remember(mv, mv.replies[Len(mv.replies)]))
             ELSE NextAttempt(mv)
    /\ MvFrame

NextMoveris ==
    \/ \E n \in CropCounts : MvCall(n)
    \/ \E reply \in Replies : MvReply(reply)
    \/ MvWake

SpecMoveris == Init /\ [][NextMoveris]_vars

\* ==== RTMSSignalingClient: connect, keepalive, close ======================

SigFrame ==
    UNCHANGED <<sessions, lock, sess, store, pc, arg, cur, drained, last,
                running, pipes, frames, mv, dec, wh>>

InitSignaling ==
    /\ sessions = EmptyMap
    /\ lock = NoTask
    /\ sess = <<>>
    /\ store = EmptyMap
    /\ pc = [t \in Tasks |-> "idle"]
    /\ arg = [t \in Tasks |-> NoMeeting]
    /\ cur = [t \in Tasks |-> NoSession]
    /\ drained = [t \in Tasks |-> {}]
    /\ last = NoCall
    /\ running = NoTask
    /\ pipes = [r \in Routes |-> NoPipe]
    /\ frames = 0
    /\ mv = MvIdle
    /\ dec = NewDecoder
    /\ wh = NoWebhooks
    /\ \E n \in UrlCounts : sig = NewSignaling(n)

\* `except Exception as exc: last_exc = exc` of the URL the loop is at
Failed(s) == [s EXCEPT !.failed = @ \cup {s.idx}]

\* a connect() that gives up at the first URL that fails
TryNextGiveUp(s) == [s EXCEPT !.pc = "raised"]

\* `for url in self._server_urls` goes on with the next URL, or the loop is
\* over and connect() raises RTMSSignalingError("Exhausted ...")
TryNext(s) ==
    IF s.idx < s.urls
    THEN [s EXCEPT !.pc = "connecting", !.idx = @ + 1]
    ELSE [s EXCEPT !.pc = "raised"]

\* a reader of the handshake reply that does not look at status_code
receive_handshake_resp_any_status(reply) ==
    IF reply.kind = "timeout" THEN "TimeoutError"
    ELSE IF reply.kind = "garbled" THEN "ValueError"
    ELSE IF reply.msg_type # 2 THEN "msg_type"
    ELSE IF reply.media = <<>> THEN "no_media"
    ELSE "ok"

\* _receive_handshake_resp: "ok", or the exception it raises
receive_handshake_resp(reply) ==
    IF reply.kind = "timeout" THEN "TimeoutError"
    ELSE IF reply.kind = "garbled" THEN "ValueError"
    ELSE IF reply.msg_type # 2 THEN "msg_type"
    ELSE IF reply.status_code # 0 THEN "status_code"
    ELSE IF reply.media = <<>> THEN "no_media"
    ELSE "ok"

\* the last entry of the list instead of the first
media_url_last(reply) == reply.media[Len(reply.media)]

\* `return media_urls[0]`
media_url(reply) == reply.media[1]

\* connect() is called: the loop starts, or ends at once on an empty list
Connect ==
    /\ sig.pc = "new" /\ sig.cl = "idle"
    /\ sig' = TryNext(sig)
    /\ SigFrame

\* `ws = await websockets.connect(url)` ends; on success `self._ws = ws` and
\* the handshake request is sent
ConnectEnd(outcome) ==
    /\ sig.pc = "connecting"
    /\ sig' = IF outcome = "open"
              THEN [sig EXCEPT !.pc = "handshake", !.ws = sig.idx,
                               !.open = @ \cup {sig.idx}]
              ELSE TryNext(Failed(sig))
    /\ SigFrame

\* `media_url = await self._receive_handshake_resp()` ends: the keepalive
\* task is created and connect() returns, or the connection is closed,
\* self._ws is None again and the loop goes on
HandshakeEnd(reply) ==
    /\ sig.pc = "handshake"
    /\ LET s == [sig EXCEPT !.reply = reply] IN
       sig' = IF receive_handshake_resp(reply) = "ok"
              THEN [s EXCEPT !.pc = "returned", !.media = media_url(reply),
                             !.ka = "created"]
              ELSE TryNext(Failed([s EXCEPT !.ws = 0, !.open = @ \ {sig.idx}]))
    /\ SigFrame

\* the server sends a frame on the signaling connection
Deliver(msg) ==
    /\ sig.pc = "returned" /\ sig.ws # 0 /\ ~sig.peer
    /\ Len(sig.inbox) + Len(sig.got) < MaxMsgs
    /\ sig' = [sig EXCEPT !.inbox = Append(@, msg)]
    /\ SigFrame

\* the server closes the signaling connection
PeerClose ==
    /\ sig.pc = "returned" /\ sig.ws # 0 /\ ~sig.peer
    /\ sig' = [sig EXCEPT !.peer = TRUE]
    /\ SigFrame

\* one turn of `async for raw_msg in self._ws` up to its next await
KeepaliveRead ==
    /\ sig.ka \in {"created", "recv"} /\ sig.cl # "await_ka"
    /\ sig.inbox # <<>>
    /\ LET msg == Head(sig.inbox)
           s == [sig EXCEPT !.inbox = Tail(@), !.got = Append(@, msg)] IN
       sig' =
         CASE msg.kind = "badutf8" -> [s EXCEPT !.ka = "ended"]
           [] msg.kind = "nonjson" -> [s EXCEPT !.ka = "recv"]
           [] msg.kind = "nonobject" -> [s EXCEPT !.ka = "ended"]
           [] OTHER -> IF msg.msg_type = 12
                       THEN [s EXCEPT !.ka = "send"]
                       ELSE [s EXCEPT !.ka = "recv"]
    /\ SigFrame

\* `await self._ws.send(json.dumps(resp))` ends: the reply is out, or the
\* connection is closed and the loop ends on ConnectionClosed
KeepaliveSend ==
    /\ sig.ka = "send" /\ sig.cl # "await_ka"
    /\ LET msg == sig.got[Len(sig.got)] IN
       sig' = IF sig.peer
              THEN [sig EXCEPT !.ka = "ended"]
              ELSE [sig EXCEPT !.ka = "recv",
                               !.replies = Append(@, Msg("object", 13, msg.timestamp))]
    /\ SigFrame

\* the iteration finds the connection closed and nothing left to read
KeepaliveClosed ==
    /\ sig.ka \in {"created", "recv"} /\ sig.cl # "await_ka"
    /\ sig.inbox = <<>> /\ sig.peer
    /\ sig' = [sig EXCEPT !.ka = "ended"]
    /\ SigFrame

\* close() has nothing left to await and returns
Closed(s) == [s EXCEPT !.cl = "idle", !.closes = @ + 1, !.ws = 0,
                       !.open = @ \ {s.ws}]

\* `if self._ws is not None: await self._ws.close(); self._ws = None`
CloseConnection(s) ==
    IF s.ws # 0 THEN [s EXCEPT !.cl = "closing"] ELSE Closed(s)

\* close() that leaves the keepalive task alone
CancelKeepaliveNever(s) == CloseConnection(s)

\* `if self._keepalive_task and not self._keepalive_task.done(): cancel()`
\* and the await of the task; a task that is done is not awaited
CancelKeepalive(s) ==
    IF KeepaliveAlive(s) THEN [s EXCEPT !.cl = "await_ka"]
    ELSE CloseConnection(s)

\* close() is called and runs to its first await, or to its end
Close ==
    /\ sig.cl = "idle" /\ sig.pc \in {"new", "returned", "raised"}
    /\ sig.closes < MaxCloses
    /\ sig' = CancelKeepalive(sig)
    /\ SigFrame

\* `await self._keepalive_task` ends: the task ended cancelled at the await
\* it was in (before its first step when it never ran); a reply whose send
\* was under way may or may not have gone out
CloseAwaitKeepalive(sent) ==
    /\ sig.cl = "await_ka"
    /\ sent => (sig.ka = "send" /\ ~sig.peer)
    /\ LET msg == sig.got[Len(sig.got)]
           s == [sig EXCEPT !.ka = "cancelled",
                            !.replies = IF sent
                                        THEN Append(@, Msg("object", 13, msg.timestamp))
                                        ELSE @] IN
       sig' = CloseConnection(s)
    /\ SigFrame

\* `await self._ws.close()` ends and close() returns
CloseReturn ==
    /\ sig.cl = "closing"
    /\ sig' = Closed(sig)
    /\ SigFrame

NextSignaling ==
    \/ Connect
    \/ \E outcome \in ConnectOutcomes : ConnectEnd(outcome)
    \/ \E reply \in HandshakeReplies : HandshakeEnd(reply)
    \/ \E msg \in Messages : Deliver(msg)
    \/ PeerClose
    \/ KeepaliveRead
    \/ KeepaliveSend
    \/ KeepaliveClosed
    \/ Close
    \/ \E sent \in BOOLEAN : CloseAwaitKeepalive(sent)
    \/ CloseReturn

SpecSignaling == InitSignaling /\ [][NextSignaling]_vars

\* ==== H264Decoder: reader, consumer, close =================================

DecFrame ==
    UNCHANGED <<sessions, lock, sess, store, pc, arg, cur, drained, last,
                running, pipes, frames, mv, sig, wh>>

InitDecoder ==
    /\ sessions = EmptyMap
    /\ lock = NoTask
    /\ sess = <<>>
    /\ store = EmptyMap
    /\ pc = [t \in Tasks |-> "idle"]
    /\ arg = [t \in Tasks |-> NoMeeting]
    /\ cur = [t \in Tasks |-> NoSession]
    /\ drained = [t \in Tasks |-> {}]
    /\ last = NoCall
    /\ running = NoTask
    /\ pipes = [r \in Routes |-> NoPipe]
    /\ frames = 0
    /\ mv = MvIdle
    /\ sig = NewSignaling(0)
    /\ \E size \in QueueSizes : dec = Decoder(size)
    /\ wh = NoWebhooks

\* asyncio.Queue.full()
full(d) == Len(d.queue) >= d.maxsize

\* a reader that makes room by dropping the oldest queued frame
EnqueueDropOldest(d, f) ==
    IF ~full(d) THEN [d EXCEPT !.queue = Append(@, f)]
    ELSE [d EXCEPT !.queue = Append(Tail(@), f), !.dropped = @ + 1]

\* `if not self._queue.full(): self._queue.put_nowait(bgr)`, else the frame
\* is dropped
Enqueue(d, f) ==
    IF ~full(d) THEN [d EXCEPT !.queue = Append(@, f)]
    ELSE [d EXCEPT !.dropped = @ + 1]

\* a reader that lets the IncompleteReadError of a truncated frame escape
ReaderEndRaisesOnTruncation(kind) ==
    IF kind = "midframe" THEN "raised" ELSE "ended"

\* how the task ends on a turn that ends the loop: `break` on the empty
\* first line, `except asyncio.IncompleteReadError` on a truncated payload,
\* `except Exception` on anything else; each one returns
ReaderEnd(kind) == "ended"

\* start(): the subprocess is launched and the reader task created
DecStart ==
    /\ dec.task = "none" /\ ~dec.closed
    /\ dec' = [dec EXCEPT !.task = "running"]
    /\ DecFrame

\* one turn of `while True` in _read_frames
DecRead(kind) ==
    /\ dec.task = "running"
    /\ kind = "frame" => dec.read < MaxDecoded
    /\ dec' =
         CASE kind = "frame" -> Enqueue([dec EXCEPT !.read = @ + 1], dec.read + 1)
           [] kind = "badmagic" -> dec
           [] OTHER -> [dec EXCEPT !.task = ReaderEnd(kind), !.end = kind]
    /\ DecFrame

\* get_frame(timeout): the next queued frame, or None when the timeout
\* expires on an empty queue
DecGetFrame ==
    /\ dec.task # "none"
    /\ dec' = IF dec.queue # <<>>
              THEN [dec EXCEPT !.queue = Tail(@), !.taken = Head(dec.queue)]
              ELSE [dec EXCEPT !.taken = 0]
    /\ DecFrame

\* close(): stdin closed, the reader task cancelled and awaited, the
\* process awaited
DecClose ==
    /\ ~dec.closed
    /\ dec' = [dec EXCEPT !.closed = TRUE,
                          !.task = IF @ = "running" THEN "cancelled" ELSE @]
    /\ DecFrame

NextDecoder ==
    \/ DecStart
    \/ \E kind \in ReadKinds : DecRead(kind)
    \/ DecGetFrame
    \/ DecClose

SpecDecoder == InitDecoder /\ [][NextDecoder]_vars

\* ==== webhook endpoint =====================================================
\* (src/src/webhook_handler.py, POST /zoom/webhook of src/src/main.py)

WebhookFrame ==
    UNCHANGED <<sessions, lock, sess, store, pc, arg, cur, drained, last,
                running, pipes, frames, mv, sig, dec>>

\* the validly signed start and stop events among the requests received
Received(w, req) ==
    IF req.json /\ req.signed /\ req.event = "meeting.rtms_started"
    THEN [w EXCEPT !.start_events = @ \cup {req.meeting}]
    ELSE IF req.json /\ req.signed /\ req.event = "meeting.rtms_stopped"
    THEN [w EXCEPT !.stop_events = @ \cup {req.meeting}]
    ELSE w

\* handle_rtms_started: asyncio.create_task(on_rtms_start(...)), 200
handle_rtms_started(w, req) ==
    [w EXCEPT !.start_calls = @ \cup {req.meeting}, !.response = 200]

\* handle_rtms_stopped: the event is logged and acknowledged with 200
handle_rtms_stopped(w, req) == [w EXCEPT !.response = 200]

\* process_webhook(request, on_rtms_start)
process_webhook(w, req) ==
    IF ~req.json THEN [w EXCEPT !.response = 400]
    ELSE IF req.event = "endpoint.url_validation" THEN [w EXCEPT !.response = 200]
    ELSE IF ~req.signed THEN [w EXCEPT !.response = 401]
    ELSE IF req.event = "meeting.rtms_started" THEN handle_rtms_started(w, req)
    ELSE IF req.event = "meeting.rtms_stopped" THEN handle_rtms_stopped(w, req)
    ELSE [w EXCEPT !.response = 200]

\* a request handled by process_webhook called with the start callback, the
\* two-parameter interface it has
ProcessWebhook(req) ==
    /\ wh' = process_webhook(Received(wh, req), req)
    /\ WebhookFrame

\* POST /zoom/webhook: zoom_webhook calls process_webhook(request, _start,
\* _stop) with one argument more than it takes; the call raises TypeError
\* before the body runs and the request is answered with 500
ZoomWebhook(req) ==
    /\ wh' = [Received(wh, req) EXCEPT !.response = 500]
    /\ WebhookFrame

NextWebhook ==
    \/ \E req \in Requests : ProcessWebhook(req)
    \/ \E req \in Requests : ZoomWebhook(req)

SpecWebhook == Init /\ [][NextWebhook]_vars


\* ---- properties -----------------------------------------------------------

\* the data a call can mutate: the map, the Sessions, the result store
DataUnchanged == sessions' = sessions /\ sess' = sess /\ store' = store

\* C1: the number of Sessions in the orchestrator map never exceeds
\* max_concurrent_sessions, whatever the interleaving of the calls.
C1_SessionCountBounded == active_session_count <= MaxConcurrentSessions

\* the map is full and a start has just been rejected
C1_Witness ==
    /\ active_session_count = MaxConcurrentSessions
    /\ last.result = "TooManySessions"

\* C2: at capacity, start_session for a meeting id that is not active raises
\* TooManySessions and leaves the map, the result store and every Session
\* as they were.
C2_RejectedStartMutatesNothing ==
    [][\A t \in Tasks :
          /\ (pc[t] = "idle" /\ pc'[t] = "s_check") => DataUnchanged
          /\ ( /\ pc[t] = "s_check"
               /\ active_session_count >= MaxConcurrentSessions
               /\ arg[t] \notin DOMAIN sessions )
             => (last' = Ended("TooManySessions", arg[t]) /\ DataUnchanged)
      ]_vars

\* a start for a meeting that is neither active nor known to the store has
\* just been rejected at capacity
C2_Witness ==
    /\ last.result = "TooManySessions"
    /\ active_session_count = MaxConcurrentSessions
    /\ last.meeting \notin DOMAIN sessions
    /\ last.meeting \notin DOMAIN store

\* C3: start_session for a meeting id already in the map returns without
\* error and changes nothing, in every state, also when the map is full.
C3_DuplicateStartIdempotent ==
    [][\A t \in Tasks :
          (pc[t] = "s_check" /\ arg[t] \in DOMAIN sessions)
             => (last' = Ended("duplicate", arg[t]) /\ DataUnchanged)
      ]_vars

\* C4: once the status of a meeting is `complete` it never goes back to
\* `processing` or `pending`.
C4_StatusMonotone ==
    [][\A m \in DOMAIN store :
          (store[m].state = "complete" /\ m \in DOMAIN store')
             => store'[m].state \notin {"processing", "pending"}
      ]_vars

\* C5: stop_session for a meeting id that is not in the map returns without
\* error and leaves the map, every Session and the result store unchanged.
C5_StopUnknownIsNoop ==
    [][\A t \in Tasks :
          /\ (pc[t] = "idle" /\ pc'[t] = "p_pop") => DataUnchanged
          /\ (pc[t] = "p_pop" /\ arg[t] \notin DOMAIN sessions)
             => (last' = Ended("unknown", arg[t]) /\ DataUnchanged)
      ]_vars

\* a stop of an unregistered meeting has just returned, and the store holds
\* a status record of that meeting that is still `processing`
C5_Witness ==
    /\ last.result = "unknown"
    /\ last.meeting \in DOMAIN store
    /\ store[last.meeting].state = "processing"

\* C6 as claimed: when stop_session(m) returns for an active meeting, m is
\* not in the map, its Session is closed and the status of m is `complete`.
C6_StoppedMeetingAbsent ==
    [][\A t \in Tasks :
          (pc[t] = "p_mark" /\ pc'[t] = "idle")
             => /\ arg[t] \notin DOMAIN sessions'
                /\ sess'[cur[t]].closed
                /\ arg[t] \in DOMAIN store'
                /\ store'[arg[t]].state = "complete"
      ]_vars

\* C6 as amended: stop_session(m) for an active meeting removes m from the
\* map in its locked step (the count drops by one); when it returns, the
\* Session it removed is closed and not registered and the status of m is
\* `complete`.  (m itself may be registered again by then, by a
\* start_session(m) that ran while stop_session was suspended.)
C6_StoppedSessionClosed ==
    [][\A t \in Tasks :
          /\ (pc[t] = "p_pop" /\ arg[t] \in DOMAIN sessions)
             => /\ arg[t] \notin DOMAIN sessions'
                /\ Cardinality(DOMAIN sessions') = active_session_count - 1
          /\ (pc[t] = "p_mark" /\ pc'[t] = "idle")
             => /\ \A m \in DOMAIN sessions' : sessions'[m] # cur[t]
                /\ sess'[cur[t]].closed
                /\ sess'[cur[t]].rtms = "closed"
                /\ ~HasTasks(sess'[cur[t]])
                /\ arg[t] \in DOMAIN store'
                /\ store'[arg[t]].state = "complete"
      ]_vars

\* a stop has just returned while its meeting is registered again
C6_Witness ==
    /\ last.result = "stopped"
    /\ last.meeting \in DOMAIN sessions
    /\ store[last.meeting].state = "complete"

\* C7 as claimed: when close() returns the map is empty and every Session
\* that was drained is closed and has status `complete`.
C7_CloseLeavesMapEmpty ==
    [][\A t \in Tasks :
          (pc[t] = "c_loop" /\ pc'[t] = "idle")
             => /\ sessions' = EmptyMap
                /\ \A it \in drained[t] :
                      /\ sess'[it[2]].closed
                      /\ store'[it[1]].state = "complete"
      ]_vars

\* C7 as amended: close() empties the map and takes all its Sessions in one
\* locked step that changes nothing else; each drained Session is closed
\* and its status set to `complete` in turn; when close() returns every
\* drained Session is closed and not registered; with no Session to drain
\* it returns having changed nothing.  (Sessions registered while close()
\* was suspended are not drained.)
C7_CloseDrainsAndCloses ==
    [][\A t \in Tasks :
          /\ (pc[t] = "idle" /\ pc'[t] = "c_drain") => DataUnchanged
          /\ (pc[t] = "c_drain")
             => /\ sessions' = EmptyMap
                /\ drained'[t] = {<<m, sessions[m]>> : m \in DOMAIN sessions}
                /\ sess' = sess
                /\ store' = store
          /\ (pc[t] = "c_mark" /\ pc'[t] = "c_loop")
             => /\ sess'[cur[t]].closed
                /\ sess'[cur[t]].rtms = "closed"
                /\ store'[MeetingOf(t, cur[t])].state = "complete"
          /\ (pc[t] = "c_loop" /\ pc'[t] = "idle")
             => /\ last' = Ended("closed", NoMeeting)
                /\ \A it \in drained[t] :
                      /\ sess'[it[2]].closed
                      /\ \A m \in DOMAIN sessions' : sessions'[m] # it[2]
                /\ (drained[t] = {} => DataUnchanged)
      ]_vars

\* close() has drained two Sessions, closed both and is about to return
C7_Witness ==
    \E t \in Tasks :
        /\ pc[t] = "c_loop"
        /\ Cardinality(drained[t]) = 2
        /\ Remaining(t) = {}
        /\ \A it \in drained[t] :
              sess[it[2]].closed /\ store[it[1]].state = "complete"

\* C8: a failure of the connection start of the new Session is never raised
\* out of start_session.
C8_ConnectFailureNotRaised == last.result # "ConnectError"

\* C9: the orchestrator lock is held only inside the locked blocks and never
\* across a suspension; while a start_session is in its connection step the
\* lock is free, so other calls can take it and run to completion.
C9_LockFreeDuringConnect ==
    \A t \in Tasks :
        /\ pc[t] = "s_connect" => lock # t
        /\ (pc[t] = "s_connect" /\ running = NoTask) => lock = NoTask
        /\ lock = t => (pc[t] \in {"s_check", "p_pop", "c_drain"} /\ running = t)

\* a start_session is suspended in its connection step and a start_session
\* for another meeting has meanwhile run to completion
C9_Witness ==
    \E t \in Tasks :
        /\ pc[t] = "s_connect"
        /\ running = NoTask
        /\ lock = NoTask
        /\ last.result = "started"
        /\ last.meeting # arg[t]

\* C10: a status record, once stored, is never removed, and every registered
\* meeting has one; it is `processing` when start_session returns and
\* `complete` when stop_session returns, whatever the participant results.
C10_StatusRecordLifecycle ==
    [][/\ \A m \in DOMAIN store : m \in DOMAIN store'
       /\ \A m \in DOMAIN sessions' : m \in DOMAIN store'
       /\ \A t \in Tasks :
             /\ (pc[t] = "s_connect" /\ pc'[t] = "idle" /\ last'.result = "started")
                => /\ arg[t] \in DOMAIN store'
                   /\ store'[arg[t]].state = "processing"
             /\ (pc[t] = "p_mark" /\ pc'[t] = "idle")
                => /\ arg[t] \in DOMAIN store'
                   /\ store'[arg[t]].state = "complete"
      ]_vars

\* a stop has just returned for a meeting whose participant results are all
\* `error`
C10_Witness ==
    /\ last.result = "stopped"
    /\ store[last.meeting].state = "complete"
    /\ DOMAIN store[last.meeting].participants # {}
    /\ \A p \in DOMAIN store[last.meeting].participants :
          store[last.meeting].participants[p] = "error"

\* ---- properties of the participant pipelines ------------------------------

\* the LivenessResult stored for the participant of route r, if any
HasResult(st, r) ==
    /\ sess[r[1]].meeting \in DOMAIN st
    /\ r[2] \in DOMAIN st[sess[r[1]].meeting].participants
ResultOf(st, r) == st[sess[r[1]].meeting].participants[r[2]]

\* frames pulled from the queue of a pipeline record so far
Pulled(p) == p.put - Len(p.queue)

\* C11: a pipeline makes a verification call exactly when it has MIN_CROPS
\* accepted crops, never more than one, with exactly MIN_CROPS items; when the
\* call returns a response, the stored result carries the response's verdict,
\* score, real/fake scores and confidence, and frames_processed is the number
\* of frames pulled.
C11_OneCallExactBatchResultMatches ==
    [][\A r \in Routes :
          /\ pipes'[r].calls <= 1
          /\ pipes'[r].calls = 1 <=> pipes'[r].crops = MIN_CROPS
          /\ pipes'[r].calls = 1 => pipes'[r].items = MIN_CROPS
          /\ (pipes[r].pc = "call" /\ pipes'[r].pc = "done"
                /\ pipes'[r].outcome.kind = "response") =>
                /\ HasResult(store', r)
                /\ LET res == ResultOf(store', r)
                       resp == pipes'[r].outcome.resp IN
                   /\ res.verdict = resp.verdict
                   /\ res.score = resp.score
                   /\ res.real_score = resp.real_score
                   /\ res.fake_score = resp.fake_score
                   /\ res.confidence = resp.confidence
                   /\ res.frames_processed = Pulled(pipes[r])]_vars

\* a pipeline that discarded a frame on its way to MIN_CROPS crops has stored
\* the `live` response of its call
C11_Witness ==
    \E r \in Routes :
        /\ pipes[r].pc = "done"
        /\ pipes[r].outcome.kind = "response"
        /\ pipes[r].seen > MIN_CROPS
        /\ HasResult(store, r)
        /\ ResultOf(store, r).verdict = "live"

\* C12: a queue pull that times out before MIN_CROPS crops were accepted
\* stores an `error` result whose frames_processed is the number of frames
\* pulled, and no verification call is made.
C12_TimeoutStoresError ==
    [][\A r \in Routes :
          (pipes[r].pc = "pull" /\ pipes[r].queue = <<>>
             /\ pipes'[r].pc = "done") =>
             /\ HasResult(store', r)
             /\ ResultOf(store', r).verdict = "error"
             /\ ResultOf(store', r).frames_processed = pipes[r].put
             /\ pipes'[r].calls = 0]_vars

\* a pipeline that pulled an accepted and a discarded frame has timed out
C12_Witness ==
    \E r \in Routes :
        /\ pipes[r].pc = "done"
        /\ pipes[r].crops = 1
        /\ pipes[r].seen = 2
        /\ pipes[r].calls = 0
        /\ HasResult(store, r)
        /\ ResultOf(store, r).error = "insufficient_frames"
        /\ ResultOf(store, r).frames_processed = 2

\* C13: a pipeline cancelled before MIN_CROPS accepted crops records an
\* `error` result with frames_processed the number of frames pulled so far,
\* and makes no verification call.
C13_CancelledStoresError ==
    [][\A r \in Routes :
          (Live(pipes[r]) /\ pipes'[r].pc = "cancelled"
             /\ pipes[r].crops < MIN_CROPS) =>
             /\ HasResult(store', r)
             /\ ResultOf(store', r).verdict = "error"
             /\ ResultOf(store', r).frames_processed = Pulled(pipes[r])
             /\ pipes'[r].calls = 0]_vars

\* C14: frames with user_id 0 never create a queue or a task, are never
\* enqueued, and never cause an entry in a status record's participants.
C14_SentinelNeverRouted ==
    [][/\ \A s \in PSessions : pipes'[<<s, 0>>] = NoPipe
       /\ \A m \in DOMAIN store' : 0 \notin DOMAIN store'[m].participants
       /\ frames' # frames =>
             /\ store' = store
             /\ \E r \in Routes :
                   r[2] # 0 /\ \A q \in Routes \ {r} : pipes'[q] = pipes[q]]_vars

\* of at least two frames delivered to open Sessions, one was enqueued for a
\* real participant and every other one carried user_id 0
C14_Witness ==
    /\ frames >= 2
    /\ DOMAIN sessions = PSessions
    /\ \E r \in Routes :
          /\ pipes[r].listed
          /\ pipes[r].put = 1
          /\ \A q \in Routes \ {r} : pipes[q] = NoPipe

\* C15 as claimed: every pipeline task that ends has instantiated the face
\* detector exactly once and released it exactly once.
C15_DetectorOncePerPipeline ==
    [][\A r \in Routes :
          (Live(pipes[r]) /\ Finished(pipes'[r])) =>
             (pipes'[r].made = 1 /\ pipes'[r].released = 1)]_vars

\* C15 as amended: a pipeline instantiates the face detector at most once,
\* exactly once when its first step has run and FaceDetector() returned; a
\* task has released exactly what it instantiated when it ends, on every exit
\* path, and nothing before.
C15_DetectorReleasedWhenMade ==
    [][\A r \in Routes :
          /\ pipes'[r].made <= 1
          /\ pipes'[r].released <= pipes'[r].made
          /\ Live(pipes'[r]) => pipes'[r].released = 0
          /\ pipes'[r].pc \in {"pull", "call"} => pipes'[r].made = 1
          /\ (Live(pipes[r]) /\ Finished(pipes'[r])) =>
                /\ pipes'[r].released = pipes'[r].made
                /\ pipes[r].pc # "spawned" => pipes'[r].made = 1]_vars

\* two tasks of a Session ended cancelled: one held a detector and released
\* it, the other was cancelled before its first step and never made one
C15_Witness ==
    \E r, q \in Routes :
        /\ pipes[r].pc = "cancelled"
        /\ pipes[r].made = 1 /\ pipes[r].released = 1
        /\ pipes[q].pc = "cancelled"
        /\ pipes[q].made = 0 /\ pipes[q].released = 0

\* C16: a MoverisError and an error left after the last retry are both
\* recorded as an `error` result that keeps frames_processed, and the task
\* ends normally: nothing is raised out of it.
C16_VerificationErrorRecorded ==
    [][\A r \in Routes :
          (pipes[r].pc = "call" /\ pipes'[r].pc # "call"
             /\ pipes'[r].outcome.kind \in {"MoverisError", "exhausted"}) =>
             /\ pipes'[r].pc = "done"
             /\ HasResult(store', r)
             /\ ResultOf(store', r).verdict = "error"
             /\ ResultOf(store', r).frames_processed = Pulled(pipes[r])]_vars

\* a call has ended with the error left after the last retry, and the error
\* result is stored
C16_Witness ==
    \E r \in Routes :
        /\ pipes[r].pc = "done"
        /\ pipes[r].outcome.kind = "exhausted"
        /\ HasResult(store, r)
        /\ ResultOf(store, r).verdict = "error"
        /\ ResultOf(store, r).frames_processed >= MIN_CROPS

\* the task of the record ended in an error of its own
EndedInError(p) ==
    \/ p.pc = "failed"
    \/ p.pc = "done" /\ p.outcome.kind # "response"

\* C17: the step in which one participant's pipeline ends in an error changes
\* no other pipeline or queue, leaves the orchestrator map and every Session
\* alone, and changes in the result store only that participant's result.
C17_ErrorStaysLocal ==
    [][\A r \in Routes :
          (Live(pipes[r]) /\ EndedInError(pipes'[r])) =>
             /\ \A q \in Routes \ {r} : pipes'[q] = pipes[q]
             /\ sessions' = sessions
             /\ sess' = sess
             /\ DOMAIN store' = DOMAIN store
             /\ \A m \in DOMAIN store :
                   /\ store'[m].state = store[m].state
                   /\ \A u \in DOMAIN store[m].participants :
                         (m # sess[r[1]].meeting \/ u # r[2]) =>
                            /\ u \in DOMAIN store'[m].participants
                            /\ store'[m].participants[u] =
                                  store[m].participants[u]
                   /\ \A u \in DOMAIN store'[m].participants :
                         u \in DOMAIN store[m].participants
                            \/ (m = sess[r[1]].meeting /\ u = r[2])]_vars

\* one pipeline of a registered Session ended in an error and another one of
\* the same Session went on to store the response of its call
C17_Witness ==
    \E r, q \in Routes :
        /\ r # q /\ r[1] = q[1]
        /\ r[1] \in {sessions[m] : m \in DOMAIN sessions}
        /\ EndedInError(pipes[r])
        /\ pipes[r].pc = "done"
        /\ pipes[q].pc = "done"
        /\ pipes[q].outcome.kind = "response"

\* ---- properties of MoverisClient.check_crops ------------------------------

\* C18: check_crops called with a number of crops other than REQUIRED_FRAMES
\* ends at once with ValueError: no POST is made and no sleep is entered.
C18_WrongCountFailsFast ==
    (mv.pc # "idle" /\ mv.n # REQUIRED_FRAMES) =>
        /\ mv.pc = "raised"
        /\ mv.result = "ValueError"
        /\ mv.posts = 0
        /\ mv.waits = <<>>
        /\ mv.replies = <<>>

\* a call with one crop too many has been refused
C18_Witness ==
    /\ mv.n = REQUIRED_FRAMES + 1
    /\ mv.pc = "raised"
    /\ mv.result = "ValueError"

\* a reply after which check_crops tries again
Retryable(reply) ==
    \/ reply.kind \in {"timeout", "connect"}
    \/ reply.kind = "status" /\ reply.status \notin {401, 402, 422}

\* C19: one check_crops call makes at most 3 POST attempts, and when all 3
\* fail with retryable errors it raises the error of the last attempt.
C19_AtMostThreeAttemptsLastErrorRaised ==
    /\ mv.posts <= 3
    /\ Len(mv.replies) <= mv.posts
    /\ (Len(mv.replies) = 3 /\ \A i \in 1..3 : Retryable(mv.replies[i])
          /\ mv.pc \notin {"sleep", "sleep429"}) =>
          /\ mv.pc = "raised"
          /\ mv.result = "last_exc"
          /\ mv.last_exc = mv.replies[3]

\* three attempts failed with three different retryable errors and the call
\* has raised
C19_Witness ==
    /\ mv.pc = "raised"
    /\ mv.posts = 3
    /\ Len(mv.replies) = 3
    /\ mv.replies[1] # mv.replies[3]
    /\ mv.replies[2] # mv.replies[3]
    /\ mv.result = "last_exc"

\* C20: a 401, 402 or 422 reply on any attempt ends check_crops at once with
\* MoverisError carrying that status: no sleep follows the reply and no
\* further POST is made.
C20_NonRetryableFailsImmediately ==
    [][/\ (mv.pc = "post" /\ Len(mv'.replies) = Len(mv.replies) + 1
             /\ mv'.replies[Len(mv'.replies)].kind = "status"
             /\ mv'.replies[Len(mv'.replies)].status \in {401, 402, 422}) =>
             /\ mv'.pc = "raised"
             /\ mv'.result = "MoverisError"
             /\ mv'.status = mv'.replies[Len(mv'.replies)].status
             /\ mv'.waits = mv.waits
             /\ mv'.posts = mv.posts
       /\ mv.pc = "raised" => mv' = mv]_vars

\* the third attempt, after two retryable failures, was answered with 422
C20_Witness ==
    /\ mv.pc = "raised"
    /\ mv.result = "MoverisError"
    /\ mv.status = 422
    /\ Len(mv.replies) = 3
    /\ Len(mv.waits) = 2


\* ---- MoverisClient.check_crops: waits between attempts --------------------

\* a 5xx (or any status the code does not single out) or a timeout/connect
\* failure: the replies that reach the wait at the end of the loop body
ServerOrTransport(reply) ==
    \/ reply.kind \in {"timeout", "connect"}
    \/ reply.kind = "status" /\ ~IsNonRetryable(reply.status) /\ reply.status # 429

\* the call went on to attempt i + 1 after reply i
Reattempted(i) == i < mv.posts

\* C21: after a 5xx or a timeout/connect failure check_crops waits exactly
\* once before the next attempt, 1s after the first failed attempt and 2s
\* after the second; 500, 500, 200 returns the parsed body on the third
\* attempt after exactly the two waits 1s and 2s.
C21_BackoffScheduleBetweenAttempts ==
    /\ mv.pc = "post" => Len(mv.waits) = mv.posts - 1
    /\ \A i \in 1..Len(mv.replies) :
          (ServerOrTransport(mv.replies[i]) /\ Reattempted(i))
             => (Len(mv.waits) >= i /\ mv.waits[i] = i)
    /\ ( /\ Len(mv.replies) = 3
         /\ mv.replies[1] = Reply("status", 500, 0)
         /\ mv.replies[2] = Reply("status", 500, 0)
         /\ mv.replies[3].kind = "ok" )
       => ( /\ mv.pc = "returned" /\ mv.result = "response"
            /\ mv.posts = 3 /\ mv.waits = <<1, 2>> )

\* 500, 500, 200: returned on the third attempt
C21_Witness ==
    /\ mv.pc = "returned"
    /\ mv.replies = <<Reply("status", 500, 0), Reply("status", 500, 0),
                      Reply("ok", 200, 0)>>
    /\ mv.waits = <<1, 2>>

\* C22: after a 429 with a wait value check_crops waits that value, once,
\* and nothing else before the next attempt; after a 429 without one it
\* waits the default of the attempt, 1s after the first and 2s after the
\* second.
C22_RateLimitWait ==
    /\ mv.pc = "post" => Len(mv.waits) = mv.posts - 1
    /\ mv.pc = "sleep429" => Len(mv.waits) = mv.posts
    /\ \A i \in 1..Len(mv.replies) :
          ( /\ mv.replies[i].kind = "status" /\ mv.replies[i].status = 429
            /\ i < MAX_ATTEMPTS )
          => /\ Len(mv.waits) >= i
             /\ mv.waits[i] = IF mv.replies[i].retry_after # 0
                              THEN mv.replies[i].retry_after
                              ELSE i

\* a 429 with the wait value 7 on the first attempt, one without on the
\* second, and the third attempt under way after the waits 7s and 2s
C22_Witness ==
    /\ mv.pc = "post" /\ mv.posts = 3
    /\ mv.replies = <<Reply("status", 429, 7), Reply("status", 429, 0)>>
    /\ mv.waits = <<7, 2>>


\* ---- RTMSSignalingClient --------------------------------------------------

\* C23: connect() tries the URLs in list order, each at most once, moves on
\* when the connection attempt or the handshake of a URL fails, and raises
\* the exhausted-URLs error only after every URL has failed (at once for an
\* empty list).
C23_UrlsTriedInOrderUntilExhausted ==
    [][ /\ sig'.idx # sig.idx =>
              /\ sig'.idx = sig.idx + 1 /\ sig'.idx <= sig.urls
              /\ sig'.pc = "connecting"
              /\ sig.idx # 0 => sig.idx \in sig'.failed
        /\ (sig'.pc = "connecting" /\ sig.pc # "connecting") =>
              sig'.idx = sig.idx + 1
        /\ (sig.pc \in {"connecting", "handshake"} /\ sig'.failed # sig.failed) =>
              sig'.pc \in {"connecting", "raised"}
        /\ (sig.pc # "raised" /\ sig'.pc = "raised") =>
              /\ sig.idx = sig.urls
              /\ sig'.failed = 1..sig.urls
        /\ (sig.pc = "new" /\ sig'.pc # "new" /\ sig.urls = 0) =>
              sig'.pc = "raised"
        /\ sig.pc \in {"returned", "raised"} =>
              (sig'.pc = sig.pc /\ sig'.idx = sig.idx)
      ]_vars

\* a connection failure on the first URL, a handshake timeout on the second
\* and last, and connect() has raised
C23_Witness ==
    /\ sig.pc = "raised" /\ sig.urls = 2 /\ sig.failed = {1, 2}
    /\ sig.reply.kind = "timeout"

\* the handshake replies the claim names
RejectedReply(reply) ==
    \/ reply.kind = "timeout"
    \/ /\ reply.kind = "resp"
       /\ \/ reply.msg_type # 2
          \/ reply.status_code # 0
          \/ reply.media = <<>>

\* C24: a handshake reply with a non-zero status, a msg_type other than 2,
\* no reply within the timeout, or an empty media-server URL list fails the
\* current URL only: its connection is closed and dropped and connect() goes
\* on with the next URL; it raises only when no URL remains.
C24_HandshakeFailureMovesOn ==
    [][ (sig.pc = "handshake" /\ sig' # sig /\ RejectedReply(sig'.reply)) =>
          /\ sig'.ws = 0 /\ sig'.open = {}
          /\ sig'.ka = "none"
          /\ sig'.failed = sig.failed \cup {sig.idx}
          /\ IF sig.idx < sig.urls
             THEN sig'.pc = "connecting" /\ sig'.idx = sig.idx + 1
             ELSE sig'.pc = "raised"
      ]_vars

\* the first URL answered with a rejected status and the second is being
\* connected to
C24_Witness ==
    /\ sig.pc = "connecting" /\ sig.idx = 2 /\ sig.ws = 0
    /\ sig.reply.kind = "resp" /\ sig.reply.msg_type = 2
    /\ sig.reply.status_code = 1 /\ sig.reply.media # <<>>

\* C25: when connect() returns, it returns the first entry of the
\* media-server URL list of the handshake reply of the first URL whose
\* connection and handshake both succeeded.
C25_ReturnsFirstMediaUrl ==
    sig.pc = "returned" =>
        /\ sig.reply.kind = "resp" /\ sig.reply.msg_type = 2
        /\ sig.reply.status_code = 0 /\ sig.reply.media # <<>>
        /\ sig.media = Head(sig.reply.media)
        /\ (sig.cl = "idle" /\ sig.closes = 0) => sig.ws = sig.idx
        /\ sig.failed = 1..(sig.idx - 1)

\* the second URL succeeded with a list of two media URLs
C25_Witness ==
    /\ sig.pc = "returned" /\ sig.idx = 2 /\ sig.failed = {1}
    /\ sig.reply.media = <<2, 1>> /\ sig.media = 2

IsKeepaliveReq(msg) == msg.kind = "object" /\ msg.msg_type = 12

\* the replies owed to the frames the loop has read
Echoes ==
    LET reqs == SelectSeq(sig.got, IsKeepaliveReq) IN
    [i \in 1..Len(reqs) |-> Msg("object", 13, reqs[i].timestamp)]

\* the connection is open and nobody has asked to close it
ConnectionOpen ==
    /\ sig.pc = "returned" /\ sig.ws # 0 /\ ~sig.peer
    /\ sig.cl = "idle" /\ sig.closes = 0

\* C26: on an open signaling connection every message of type 12 produces
\* exactly one reply of type 13 with the same timestamp, in the order
\* received; every other message, of another type or not valid JSON,
\* produces no reply and does not end the keepalive loop.
C26_KeepaliveEchoesAndSurvives ==
    ConnectionOpen =>
        /\ KeepaliveAlive(sig)
        /\ sig.replies = IF sig.ka = "send"
                         THEN SubSeq(Echoes, 1, Len(Echoes) - 1)
                         ELSE Echoes

\* C27: close() cancels the keepalive loop and closes the connection: when
\* it returns the keepalive task (if any) is done and no connection is
\* held; a repeated close, a close before connect and a close after a failed
\* connect end in the same state.
C27_CloseLeavesClosedState ==
    [][ sig'.closes = sig.closes + 1 =>
          /\ sig'.cl = "idle"
          /\ sig'.ws = 0 /\ sig'.open = {}
          /\ ~KeepaliveAlive(sig')
          /\ sig'.pc = sig.pc
      ]_vars

\* a connected client closed twice
C27_Witness ==
    /\ sig.closes = 2 /\ sig.cl = "idle"
    /\ sig.pc = "returned" /\ sig.ka = "cancelled" /\ sig.ws = 0


\* ---- H264Decoder ----------------------------------------------------------

RoutesOf(s) == {r \in Routes : r[1] = s}

\* C29: a participant's frame queue never holds more than its bound; a frame
\* that arrives while the queue is full is dropped and the router's call
\* ends all the same; the frames enqueued are pulled by the participant's
\* pipeline in arrival order, each at most once (the k-th pull takes the
\* k-th frame enqueued).
C29_QueueBoundedFifo ==
    /\ [](\A r \in Routes :
            /\ Len(pipes[r].queue) <= QUEUE_MAXSIZE
            /\ pipes[r].put = pipes[r].seen + Len(pipes[r].queue)
            /\ \A i \in 1..Len(pipes[r].queue) :
                  pipes[r].queue[i] = pipes[r].seen + i)
    /\ [][\A r \in Routes :
            /\ pipes'[r].dropped = pipes[r].dropped + 1 =>
                  /\ Len(pipes[r].queue) = QUEUE_MAXSIZE
                  /\ pipes'[r] = [pipes[r] EXCEPT !.dropped = @ + 1]
                  /\ frames' = frames + 1
            /\ (pipes[r].listed /\ pipes'[r].put = pipes[r].put + 1) =>
                  /\ Len(pipes[r].queue) < QUEUE_MAXSIZE
                  /\ pipes'[r].queue = Append(pipes[r].queue, pipes'[r].put)
            /\ pipes'[r].seen = pipes[r].seen + 1 =>
                  /\ pipes[r].queue # <<>>
                  /\ Head(pipes[r].queue) = pipes'[r].seen
                  /\ pipes'[r].queue = Tail(pipes[r].queue)
         ]_vars

\* three frames for one participant before its task ran: two queued, the
\* third dropped; the task has then pulled the first
C29_Witness ==
    \E r \in Routes :
        /\ pipes[r].put = 2 /\ pipes[r].dropped = 1
        /\ pipes[r].seen = 1 /\ pipes[r].queue = <<2>>

\* C30: closing a Session cancels every participant task of the Session, at
\* the queue pull or the verification call it is waiting in; a cancelled
\* task ends cancelled; when _Session.close() returns, every participant
\* task of the Session has finished.
C30_CloseCancelsAndAwaitsEveryTask ==
    [][\A s \in PSessions :
          /\ (sess[s].rtms = "running" /\ sess'[s].rtms = "closed") =>
                \A r \in RoutesOf(s) : Live(pipes[r]) => pipes'[r].cancelreq
          /\ \A r \in RoutesOf(s) :
                (pipes[r].cancelreq /\ Live(pipes[r]) /\ pipes'[r].pc # pipes[r].pc)
                   => pipes'[r].pc = "cancelled"
          /\ (~sess[s].closed /\ sess'[s].closed) =>
                \A r \in RoutesOf(s) : ~Live(pipes[r]) /\ ~Live(pipes'[r])
      ]_vars


\* ---- one pipeline per participant ------------------------------------------

\* C31: for each Session and participant the queue and the pipeline task are
\* created exactly once, on the participant's first frame; a later frame of
\* the participant never spawns a second pipeline, so at most one
\* verification call is made, and at most one is in flight, per participant
\* and Session.
C31_OnePipelinePerParticipant ==
    \A r \in Routes :
        /\ pipes[r].spawns <= 1
        /\ pipes[r].calls <= 1
        /\ pipes[r].pc = "call" => pipes[r].calls = 1
        /\ pipes[r].pc # "none" => pipes[r].spawns = 1


\* ---- H264Decoder: end of the stream ----------------------------------------

\* C32: the reader loop ends by returning, not by raising, both on a clean
\* end of the stream (empty read at a frame boundary) and on a stream cut
\* inside the pixel data of a frame; the frames queued before the end stay
\* in the queue and get_frame returns them in the order they were produced.
C32_ReaderEndsQuietlyFramesKept ==
    /\ [](\A i \in 1..Len(dec.queue), j \in 1..Len(dec.queue) :
             i < j => dec.queue[i] < dec.queue[j])
    /\ [][ /\ (dec.end = "none" /\ dec'.end \in {"eof", "midframe"}) =>
                (dec'.task = "ended" /\ dec'.queue = dec.queue)
           /\ dec.task \in {"ended", "raised", "cancelled"} =>
                \/ dec'.queue = dec.queue
                \/ dec.queue # <<>> /\ dec'.queue = Tail(dec.queue)
           /\ Len(dec'.queue) < Len(dec.queue) =>
                (dec'.taken = Head(dec.queue) /\ dec'.queue = Tail(dec.queue))
         ]_vars

\* two frames decoded, the stream cut inside the third, and get_frame has
\* since returned frame 1 and then frame 2
C32_Witness ==
    /\ dec.task = "ended" /\ dec.end = "midframe"
    /\ dec.read = 2 /\ dec.dropped = 0
    /\ dec.queue = <<>> /\ dec.taken = 2


\* ---- webhook endpoint ------------------------------------------------------

\* C33: a validly signed meeting.rtms_stopped event for meeting m makes the
\* endpoint invoke the stop callback on_rtms_stop(m), which stops the active
\* Session of m: once the event has been answered the callback has been
\* invoked for m.
C33_StopEventInvokesStopCallback ==
    \A m \in wh.stop_events : m \in wh.stop_calls


\* ---- frames that arrive late ----------------------------------------------

\* C34: once stop_session or close() has returned for a Session, none of its
\* participant pipelines is running and none is spawned any more; a frame
\* callback that runs while _Session.close() is under way, or after it,
\* creates no queue and no task in that Session.
C34_NoPipelineInClosedSession ==
    /\ [](\A s \in PSessions :
            sess[s].closed => \A r \in RoutesOf(s) : ~Live(pipes[r]))
    /\ [][\A s \in PSessions :
            sess[s].rtms = "closed" =>
                \A r \in RoutesOf(s) : pipes'[r].spawns = pipes[r].spawns
         ]_vars

\* ---- running Sessions and the map ------------------------------------------

Registered(i) == \E m \in DOMAIN sessions : sessions[m] = i

\* a stop_session or close() in progress has taken Session i out of the map
\* and has not finished closing it
HeldForClose(i) ==
    \E t \in Tasks :
        \/ pc[t] \in {"p_close", "p_mark"} /\ cur[t] = i
        \/ pc[t] \in {"c_loop", "c_mark"} /\ \E it \in drained[t] : it[2] = i

\* C35 as claimed: every Session whose transport client is running is in the
\* orchestrator map, at every point where another coroutine can run.
C35_RunningSessionRegistered ==
    running = NoTask =>
        \A i \in DOMAIN sess : sess[i].rtms = "running" => Registered(i)

\* C35 as amended: every Session whose transport client is running is in the
\* map or is held by a stop_session or close() in progress that closes it;
\* no start_session leaves a running Session that nothing refers to.
C35_NoRunningUnregisteredSession ==
    \A i \in DOMAIN sess :
        sess[i].rtms = "running" => Registered(i) \/ HeldForClose(i)

\* close() is suspended closing the first Session it drained while the
\* second, out of the map, is still running
C35_Witness ==
    \E t \in Tasks, i \in DOMAIN sess :
        /\ running = NoTask
        /\ pc[t] = "c_mark"
        /\ cur[t] # i
        /\ sess[i].rtms = "running"
        /\ ~Registered(i)
        /\ HeldForClose(i)

\* ---- results of a completed meeting ----------------------------------------

\* C36: once the status record of a meeting is `complete`, its participant
\* results do not change (no start_session runs in this specification, so no
\* meeting is started again).
C36_CompleteResultsFrozen ==
    [][\A m \in DOMAIN store :
          store[m].state = "complete" =>
              /\ m \in DOMAIN store'
              /\ store'[m].participants = store[m].participants
      ]_vars

\* ---- failed connection start ----------------------------------------------

\* C37: when the connection start of a newly registered Session fails, the
\* Session does not stay in the map when start_session ends: it takes no
\* unit of the cap and a later start_session for the same meeting is not
\* ignored as a duplicate.
C37_FailedStartUnregistered ==
    [][\A t \in Tasks :
          (pc[t] = "s_connect" /\ pc'[t] = "idle"
              /\ last'.result = "ConnectError")
             => \A m \in DOMAIN sessions' : sessions'[m] # cur[t]
      ]_vars

\* ---- every finished pipeline leaves a result --------------------------------

\* C38: a pipeline that has ended without being cancelled has stored a
\* Verification Result for its participant, whatever made it end: frame
\* timeout, an exception from the filter or the face extraction, a failure
\* to construct the face detector, or the verification call.
C38_EndedPipelineStoredResult ==
    \A r \in Routes :
        pipes[r].pc \in {"done", "failed"} => HasResult(store, r)

\* ---- check_crops: waits ------------------------------------------------------

\* C39: check_crops waits only between attempts, never after the last one:
\* a call that has ended made fewer waits than attempts, and no call makes
\* more than MAX_ATTEMPTS - 1 waits, also when the last attempt is answered
\* with 429.
C39_NoWaitAfterFinalAttempt ==
    /\ Len(mv.waits) <= MAX_ATTEMPTS - 1
    /\ (mv.pc \in {"returned", "raised"} /\ mv.posts > 0)
          => Len(mv.waits) <= mv.posts - 1

\* ---- termination of the pipelines ------------------------------------------

\* C40: every spawned pipeline eventually ends (it stores a result or is
\* cancelled) for every pattern of frame arrival while its Session stays
\* open, also when frames keep arriving more often than the per-pull timeout
\* and none of them yields an accepted crop.
C40_PipelineEventuallyEnds ==
    \A r \in StreamRoutes :
        Live(pipes[r]) ~>
            (Finished(pipes[r]) \/ sess[StreamSession].rtms # "running")

====
